---- MODULE Spec2Model ----
(***************************************************************************)
(* Model of the log-buffering facade of soa-rs/fit (package logger):       *)
(* logWrapper / sublogWrapper / MarkInitialized / processQueue and the     *)
(* package state `queue` (a buffered channel) and `queueClosed` (an        *)
(* atomic.Bool).  Every numbered statement of the Go code that touches     *)
(* shared state is one atomic step of the calling goroutine.               *)
(***************************************************************************)
EXTENDS Integers, Sequences, FiniteSets, TLC

\* ---------------------------------------------------------------- bounds
\* Number of application goroutines that call into the facade.
NThreads == 2
\* Total number of Log* calls the application makes.
MaxCalls == 3
\* Total number of MarkInitialized calls.
MaxInits == 2
\* Capacity of the channel.  The code uses 100 (make(chan logOperation, 100));
\* the model scales it down so that the full-backlog case is reached.
QueueCap == 2

Threads == 1..NThreads

\* ------------------------------------------------- Log* entry points
LogFns == {"LogTrace", "LogDebug", "LogInfo", "LogWarn", "LogError", "LogFatal", "LogPanic"}
\* The entry points the modelled application calls: one for each way
\* sublogWrapper's zerolog event ends (returns, os.Exit, panic).
AppFns == {"LogInfo", "LogFatal", "LogPanic"}

\* The level string each entry point passes to logWrapper.
LevelArg(fn) ==
    CASE fn = "LogTrace" -> "trace"
      [] fn = "LogDebug" -> "debug"
      [] fn = "LogInfo"  -> "info"
      [] fn = "LogWarn"  -> "warn"
      [] fn = "LogError" -> "error"
      [] fn = "LogFatal" -> "fatal"
      [] fn = "LogPanic" -> "panic"

\* Messages the application logs (already formatted by fmt.Sprintf).
Msgs == {"a"}
\* Largest value the application's variable takes.
MaxArg == 1
\* fmt.Sprintf("x=%d", v) of line 13: the decimal rendering of v after "x=".
Digit(v) ==
    CASE v = 0 -> "0" [] v = 1 -> "1" [] v = 2 -> "2" [] v = 3 -> "3" [] v = 4 -> "4"
      [] v = 5 -> "5" [] v = 6 -> "6" [] v = 7 -> "7" [] v = 8 -> "8" [] v = 9 -> "9"
Sprintf(v) == "x=" \o Digit(v)

InitMsg == "Logger initialized"

\* Variant of sublogWrapper's switch without the "trace" case, which then
\* falls to the default.
SinkLevel_NoTrace(level) ==
    CASE level = "debug" -> "debug"
      [] level = "info"  -> "info"
      [] level = "warn"  -> "warn"
      [] level = "error" -> "error"
      [] level = "fatal" -> "fatal"
      [] level = "panic" -> "panic"
      [] OTHER           -> "info"

\* The zerolog event sublogWrapper's switch selects for a level string.
SinkLevel(level) ==
    CASE level = "debug" -> "debug"
      [] level = "info"  -> "info"
      [] level = "warn"  -> "warn"
      [] level = "error" -> "error"
      [] level = "fatal" -> "fatal"
      [] level = "panic" -> "panic"
      [] level = "trace" -> "trace"
      [] OTHER           -> "info"

\* A logOperation, tagged with the index of the call that produced it.
LogOperation(id, level, message) == [id |-> id, level |-> level, message |-> message]
NoOp == [id |-> 0, level |-> "", message |-> ""]

VARIABLES
    queueClosed,   \* atomic.Bool queueClosed
    chanCap,       \* cap(queue), fixed by init() (line 114)
    queue,         \* records buffered in the channel `queue`
    chanClosed,    \* whether close(queue) has been executed
    sink,          \* sequence of events handed to zerolog by sublogWrapper
    pc,            \* per goroutine: position in the code
    op,            \* per goroutine: the (level, message) of the running logWrapper
    curInit,       \* per goroutine: index in `inits` of the running MarkInitialized, or 0
    drainers,      \* one entry per `go processQueue()` executed
    proc,          \* "running", "exit" (os.Exit by log.Fatal) or "crash" (unrecovered panic)
    panics,        \* kinds of runtime panic that have been raised
    calls,         \* history: every logWrapper call, in the order issued, with what
                   \* its Load of line 16 read (observed) and its outcome
    inits,         \* history: every MarkInitialized call, in the order issued
    atClose,       \* history: the channel's contents when close(queue) ran
    appArg,        \* a variable of the application whose value it passes as the
                   \* argument of its Log* calls
    stack,         \* per goroutine: where the callers in package config go on
                   \* when the facade function returns (innermost first)
    environ,       \* the process environment (os.LookupEnv)
    fsys,          \* file system: the .env files and whether the log file opens
    once,          \* sync.Once `once` of SetupLogger: its done flag and mutex
    logConf,       \* zerolog's global level and log.Logger's writer
    frame,         \* per goroutine: locals of GetEnvOrDefault / SetupLogger
    confLog,       \* history: calls, returns and library calls of package config
    db,            \* the PostgreSQL database behind `db *sql.DB`: its committed rows
    schema,        \* constraints the tables were created with (not part of the source)
    web            \* per goroutine: the HTTP request it serves, its locals and response

vars == <<queueClosed, chanCap, queue, chanClosed, sink, pc, op, curInit,
          drainers, proc, panics, calls, inits, atClose, appArg,
          stack, environ, fsys, once, logConf, frame, confLog, db, schema, web>>

\* State of the HTTP handlers and of their database.
webVars == <<db, schema, web>>

\* State of package config and of what it configures.
confVars == <<environ, fsys, once, logConf, frame, confLog>>

\* ------------------------------------------------ package config: data
\* Environment variable names (env.go lines 13-22, gin.EnvGinMode, and
\* the keys initDB reads).
EnvBackendPrefix == "FIT_SOARS_BACKEND_"
EnvBackendProfile == EnvBackendPrefix \o "PROFILE"
EnvBackendHost == EnvBackendPrefix \o "HOST"
EnvBackendPort == EnvBackendPrefix \o "PORT"
EnvBackendLogLevel == EnvBackendPrefix \o "LOG_LEVEL"
EnvBackendLogFormat == EnvBackendPrefix \o "LOG_FORMAT"
EnvBackendLogFile == EnvBackendPrefix \o "LOG_FILE"
EnvBackendLogOutput == EnvBackendPrefix \o "LOG_OUTPUT"
EnvGinMode == "GIN_MODE"
DBKeys == {"DB_HOST", "DB_PORT", "DB_USER", "DB_PASSWORD", "DB_NAME"}

\* The map EnvBackendDefaults (env.go lines 50-61).
EnvBackendDefaults ==
    (EnvBackendProfile :> "production") @@ (EnvBackendHost :> "127.0.0.1") @@
    (EnvBackendPort :> "1369") @@ (EnvGinMode :> "release") @@
    (EnvBackendLogLevel :> "info") @@ (EnvBackendLogFormat :> "pretty") @@
    (EnvBackendLogFile :> "backend.log") @@ (EnvBackendLogOutput :> "console")

\* m[key] on a Go map[string]string: the zero value "" for a missing key.
MapIndex(m, key) == IF key \in DOMAIN m THEN m[key] ELSE ""
\* os.LookupEnv(key) on environment env (a function from the set names).
LookupEnv(env, key) ==
    IF key \in DOMAIN env THEN [value |-> env[key], ok |-> TRUE]
    ELSE [value |-> "", ok |-> FALSE]
\* Variant of line 74 that falls back only for an unset variable: if !ok
UseDefault_UnsetOnly(v) == ~v.ok

\* The condition of line 74: if !ok || value == ""
UseDefault(v) == ~v.ok \/ v.value = ""

\* The messages GetEnvOrDefault logs (lines 68-71 and 75-78).
NotSetMsg(key) ==
    "Environment variable " \o key \o " not set, using default value "
        \o MapIndex(EnvBackendDefaults, key)
ResultMsg(key, res) == "GetEnvOrDefault(" \o key \o ") = " \o res

\* GetEnvFilesList's list for a profile (lines 107-116), built by appends.
FilesAfterProfile(profile) ==
    IF profile # "production"
    THEN LET f1 == Append(<<>>, ".env." \o profile \o ".local")
             f2 == IF profile # "test" THEN Append(f1, ".env.local") ELSE f1
         IN Append(f2, ".env." \o profile)
    ELSE <<>>
\* Variant of lines 107-116 that puts ".env" first.
FilesList_EnvFirst(profile) == <<".env">> \o FilesAfterProfile(profile)

FilesList(profile) == Append(FilesAfterProfile(profile), ".env")

\* godotenv.Load(file): a missing file is an error the caller ignores; a
\* variable that is already in the environment is not overridden.
DotenvLoad(env, dotenv, file) ==
    IF file \in DOMAIN dotenv
    THEN [k \in DOMAIN env \cup DOMAIN dotenv[file] |->
             IF k \in DOMAIN env THEN env[k] ELSE dotenv[file][k]]
    ELSE env

\* zerolog.ParseLevel: the level names it accepts (it also accepts small
\* integers, which the environments of the model do not use).
LevelNames == {"trace", "debug", "info", "warn", "error", "fatal", "panic", "disabled"}
\* Variant of zerolog.ParseLevel that accepts every string.
ParseLevelOK_Any(s) == TRUE

ParseLevelOK(s) == s \in LevelNames
\* gin.SetMode accepts these modes and panics on any other.
GinModes == {"debug", "release", "test", ""}

\* Locals of the functions of package config a goroutine is running.
NoFrame == [key |-> "", ok |-> FALSE, val |-> "", res |-> "", vals |-> <<>>, files |-> <<>>]
\* sync.Once before its first Do; zerolog as the library initialises it.
OnceNew == [done |-> FALSE, mu |-> 0]
LogConfDefault == [level |-> "default", writer |-> "default"]

\* State of package logger after package initialisation: init() has made
\* the channel.
LoggerInitCap(c) ==
    /\ queueClosed = FALSE
    /\ chanCap = c
    /\ queue = <<>>
    /\ chanClosed = FALSE
    /\ sink = <<>>
    /\ pc = [t \in Threads |-> "idle"]
    /\ op = [t \in Threads |-> NoOp]
    /\ curInit = [t \in Threads |-> 0]
    /\ drainers = <<>>
    /\ proc = "running"
    /\ panics = {}
    /\ calls = <<>>
    /\ inits = <<>>
    /\ atClose = <<>>
    /\ appArg = 0
    /\ stack = [t \in Threads |-> <<>>]

\* The model's channel holds QueueCap records.
LoggerInit == LoggerInitCap(QueueCap)

\* State of package config at process start, in environment env with .env
\* files dotenv.
ConfInit(env, dotenv, canOpen) ==
    /\ environ = env
    /\ fsys = [dotenv |-> dotenv, canOpenLog |-> canOpen]
    /\ once = OnceNew
    /\ logConf = LogConfDefault
    /\ frame = [t \in Threads |-> NoFrame]
    /\ confLog = <<>>

\* No request is being served; the database is empty.
NoRequest == [handler |-> "none"]
EmptyDB == [programs |-> {}, routines |-> {}, routine_exercises |-> {},
            exercises |-> {}, workouts |-> {}, workout_sets |-> {}, serial |-> 0]
WebIdle ==
    /\ db = EmptyDB
    /\ schema = [foreignKeys |-> FALSE, uniqueLink |-> FALSE]
    /\ web = [t \in Threads |-> NoRequest]

\* The facade on its own: nothing of package config runs.
Init == LoggerInit /\ ConfInit(<<>>, <<>>, TRUE) /\ WebIdle

\* ------------------------------------------------------ history helpers
AppCallIds == {i \in DOMAIN calls : calls[i].src = "app"}
NumInitsReturned == Cardinality({i \in DOMAIN inits : inits[i].res = "returned"})
\* Ids of the logWrapper calls other goroutines are executing.
Running(t) == {op[u].id : u \in Threads \ {t}} \ {0}

\* Call id ends with outcome res; `pre` records that it ended before any
\* MarkInitialized call was made.
SetOutcome(cs, id, res) ==
    [cs EXCEPT ![id].outcome = res, ![id].pre = (Len(inits) = 0)]

\* The call of goroutine t ends, normally ("returned") or by a panic.
EndInit(is, t, res) ==
    IF curInit[t] # 0 THEN [is EXCEPT ![curInit[t]].res = res] ELSE is

\* Where goroutine t goes on when the facade function it is in returns: in
\* the function of package config that called it, or back in the application.
Resume(t) == IF stack[t] = <<>> THEN "idle" ELSE Head(stack[t])
Pop(st) == IF st = <<>> THEN st ELSE Tail(st)

\* logWrapper returns to its caller; MarkInitialized then returns too (line 95).
ReturnFrom(t, outcome) ==
    /\ pc' = [pc EXCEPT ![t] = Resume(t)]
    /\ stack' = [stack EXCEPT ![t] = Pop(stack[t])]
    /\ curInit' = [curInit EXCEPT ![t] = 0]
    /\ op' = [op EXCEPT ![t] = NoOp]
    /\ calls' = SetOutcome(calls, op[t].id, outcome)
    /\ inits' = EndInit(inits, t, "returned")

\* A runtime panic unwinds goroutine t.  Its caller either recovers (as gin's
\* Recovery middleware does for handlers) or the whole process dies.
RaisePanic(t, kind, outcome) ==
    /\ panics' = panics \cup {kind}
    /\ proc' \in {"running", "crash"}
    /\ pc' = [pc EXCEPT ![t] = "idle"]
    /\ stack' = [stack EXCEPT ![t] = <<>>]
    /\ curInit' = [curInit EXCEPT ![t] = 0]
    /\ op' = [op EXCEPT ![t] = NoOp]
    /\ calls' = IF op[t].id = 0 THEN calls
                ELSE SetOutcome(calls, op[t].id, outcome)
    /\ inits' = EndInit(inits, t, "panicked")

\* --------------------------------------------------------- logWrapper
\* Variant of line 16 that takes the buffering branch whatever the flag says.
AfterLoad_Buffer(closed) == "lw_send"

\* Variant of line 16 that never buffers: every call goes on to line 26.
AfterLoad_Direct(closed) == "lw_direct"

\* Where logWrapper goes after line 16: if !queueClosed.Load()
AfterLoad(closed) == IF ~closed THEN "lw_send" ELSE "lw_direct"

\* LogTrace .. LogPanic call logWrapper (lines 11-16), which formats the
\* message (its first access to shared state is the Load of line 16).
LogCall(t, fn, msg) ==
    /\ proc = "running"
    /\ pc[t] = "idle"
    /\ Cardinality(AppCallIds) < MaxCalls
    /\ LET id == Len(calls) + 1 IN
        /\ calls' = Append(calls, [src |-> "app", fn |-> fn, message |-> msg, init |-> 0,
                                   conc |-> Running(t), post |-> (NumInitsReturned > 0),
                                   observed |-> queueClosed, afterClose |-> chanClosed,
                                   pre |-> FALSE, outcome |-> "pending"])
        /\ op' = [op EXCEPT ![t] = LogOperation(id, LevelArg(fn), msg)]
    /\ pc' = [pc EXCEPT ![t] = AfterLoad(queueClosed)]
    /\ UNCHANGED <<queueClosed, queue, chanClosed, sink, curInit, drainers,
                   proc, panics, inits, atClose>>
    /\ UNCHANGED <<webVars, chanCap, appArg, stack, confVars>>

\* Variant of lines 17-23 without the `default` capacity fallback: the
\* record is always appended.
LW_Send_Unbounded(t) ==
    /\ proc = "running"
    /\ pc[t] = "lw_send"
    /\ IF chanClosed
       THEN /\ RaisePanic(t, "send on closed channel", "panic")
            /\ UNCHANGED queue
       ELSE /\ queue' = Append(queue, op[t])
            /\ ReturnFrom(t, "enqueued")
            /\ UNCHANGED <<proc, panics>>
    /\ UNCHANGED <<queueClosed, chanClosed, sink, drainers, atClose>>
    /\ UNCHANGED <<webVars, chanCap, appArg, confVars>>

\* Variant of lines 17-23 that puts the record at the head of the buffer.
LW_Send_Prepend(t) ==
    /\ proc = "running"
    /\ pc[t] = "lw_send"
    /\ IF chanClosed
       THEN /\ RaisePanic(t, "send on closed channel", "panic")
            /\ UNCHANGED queue
       ELSE IF Len(queue) < chanCap
       THEN /\ queue' = <<op[t]>> \o queue
            /\ ReturnFrom(t, "enqueued")
            /\ UNCHANGED <<proc, panics>>
       ELSE /\ ReturnFrom(t, "dropped")
            /\ UNCHANGED <<queue, proc, panics>>
    /\ UNCHANGED <<queueClosed, chanClosed, sink, drainers, atClose>>
    /\ UNCHANGED <<webVars, chanCap, appArg, confVars>>

\* Variant of lines 17-23 without the `default` case: a plain send, which
\* waits while the channel is full.
LW_Send_Blocking(t) ==
    /\ proc = "running"
    /\ pc[t] = "lw_send"
    /\ IF chanClosed
       THEN /\ RaisePanic(t, "send on closed channel", "panic")
            /\ UNCHANGED queue
       ELSE /\ Len(queue) < chanCap
            /\ queue' = Append(queue, op[t])
            /\ ReturnFrom(t, "enqueued")
            /\ UNCHANGED <<proc, panics>>
    /\ UNCHANGED <<queueClosed, chanClosed, sink, drainers, atClose>>
    /\ UNCHANGED <<webVars, chanCap, appArg, confVars>>

\* Lines 17-23: select { case queue <- op: default: }; return.
\* A send on a closed channel panics, also inside a select with a default.
LW_Send(t) ==
    /\ proc = "running"
    /\ pc[t] = "lw_send"
    /\ IF chanClosed
       THEN /\ RaisePanic(t, "send on closed channel", "panic")
            /\ UNCHANGED queue
       ELSE IF Len(queue) < chanCap
       THEN /\ queue' = Append(queue, op[t])
            /\ ReturnFrom(t, "enqueued")
            /\ UNCHANGED <<proc, panics>>
       ELSE /\ ReturnFrom(t, "dropped")
            /\ UNCHANGED <<queue, proc, panics>>
    /\ UNCHANGED <<queueClosed, chanClosed, sink, drainers, atClose>>
    /\ UNCHANGED <<webVars, chanCap, appArg, confVars>>

\* sublogWrapper's write: the event handed to zerolog, tagged with the
\* goroutine kind that wrote it ("direct": the caller, "drain": processQueue).
SinkEvent(o, by) ==
    [id |-> o.id, level |-> SinkLevel(o.level), message |-> o.message, by |-> by]

\* Line 26: sublogWrapper(level, message) in the calling goroutine.
\* log.Fatal().Msg writes and calls os.Exit(1); log.Panic().Msg writes and panics.
LW_Direct(t) ==
    /\ proc = "running"
    /\ pc[t] = "lw_direct"
    /\ sink' = Append(sink, SinkEvent(op[t], "direct"))
    /\ IF SinkLevel(op[t].level) = "fatal"
       THEN /\ proc' = "exit"
            /\ calls' = [calls EXCEPT ![op[t].id].outcome = "direct"]
            /\ UNCHANGED <<pc, op, curInit, panics, inits, stack>>
       ELSE IF SinkLevel(op[t].level) = "panic"
       THEN RaisePanic(t, "log.Panic", "direct")
       ELSE /\ ReturnFrom(t, "direct")
            /\ UNCHANGED <<proc, panics>>
    /\ UNCHANGED <<queueClosed, queue, chanClosed, drainers, atClose>>
    /\ UNCHANGED <<webVars, chanCap, appArg, confVars>>

\* ----------------------------------------------------- MarkInitialized
\* MarkInitialized is called and executes line 89: if !queueClosed.Load()
MarkInitialized(t) ==
    /\ proc = "running"
    /\ pc[t] = "idle"
    /\ Len(inits) < MaxInits
    /\ inits' = Append(inits, [res |-> "running",
                               branch |-> IF ~queueClosed THEN "transition" ELSE "skip",
                               late |-> (NumInitsReturned > 0),
                               overlap |-> (\E u \in Threads : curInit[u] # 0)])
    /\ curInit' = [curInit EXCEPT ![t] = Len(inits) + 1]
    /\ pc' = [pc EXCEPT ![t] = IF ~queueClosed THEN "mi_store" ELSE "mi_log"]
    /\ UNCHANGED <<queueClosed, queue, chanClosed, sink, op, drainers, proc, panics,
                   calls, atClose>>
    /\ UNCHANGED <<webVars, chanCap, appArg, stack, confVars>>

\* Variant of line 90 that stores the negation of the flag's current value.
MI_Store_Toggle(t) ==
    /\ proc = "running"
    /\ pc[t] = "mi_store"
    /\ queueClosed' = ~queueClosed
    /\ pc' = [pc EXCEPT ![t] = "mi_close"]
    /\ UNCHANGED <<queue, chanClosed, sink, op, curInit, drainers, proc, panics,
                   calls, inits, atClose>>
    /\ UNCHANGED <<webVars, chanCap, appArg, stack, confVars>>

\* Variant of MarkInitialized without the Store of line 90.
MI_Store_Skip(t) ==
    /\ proc = "running"
    /\ pc[t] = "mi_store"
    /\ pc' = [pc EXCEPT ![t] = "mi_close"]
    /\ UNCHANGED <<queueClosed, queue, chanClosed, sink, op, curInit, drainers, proc,
                   panics, calls, inits, atClose>>
    /\ UNCHANGED <<webVars, chanCap, appArg, stack, confVars>>

\* Line 90: queueClosed.Store(true)
MI_Store(t) ==
    /\ proc = "running"
    /\ pc[t] = "mi_store"
    /\ queueClosed' = TRUE
    /\ pc' = [pc EXCEPT ![t] = "mi_close"]
    /\ UNCHANGED <<queue, chanClosed, sink, op, curInit, drainers, proc, panics,
                   calls, inits, atClose>>
    /\ UNCHANGED <<webVars, chanCap, appArg, stack, confVars>>

\* Variant of line 91 in which closing a closed channel is a silent no-op.
MI_Close_Tolerant(t) ==
    /\ proc = "running"
    /\ pc[t] = "mi_close"
    /\ chanClosed' = TRUE
    /\ atClose' = IF chanClosed THEN atClose ELSE queue
    /\ pc' = [pc EXCEPT ![t] = "mi_go"]
    /\ UNCHANGED <<queueClosed, queue, sink, op, curInit, drainers, proc, panics,
                   calls, inits>>
    /\ UNCHANGED <<webVars, chanCap, appArg, stack, confVars>>

\* Line 91: close(queue).  Closing a closed channel panics.
MI_Close(t) ==
    /\ proc = "running"
    /\ pc[t] = "mi_close"
    /\ IF chanClosed
       THEN /\ RaisePanic(t, "close of closed channel", "panic")
            /\ UNCHANGED <<chanClosed, atClose>>
       ELSE /\ chanClosed' = TRUE
            /\ atClose' = queue
            /\ pc' = [pc EXCEPT ![t] = "mi_go"]
            /\ UNCHANGED <<op, curInit, proc, panics, calls, inits, stack>>
    /\ UNCHANGED <<queueClosed, queue, sink, drainers>>
    /\ UNCHANGED <<webVars, chanCap, appArg, confVars>>

\* Variant of line 92 that does not start processQueue.
MI_Go_NoStart(t) ==
    /\ proc = "running"
    /\ pc[t] = "mi_go"
    /\ pc' = [pc EXCEPT ![t] = "mi_log"]
    /\ UNCHANGED <<queueClosed, queue, chanClosed, sink, op, curInit, drainers, proc,
                   panics, calls, inits, atClose>>
    /\ UNCHANGED <<webVars, chanCap, appArg, stack, confVars>>

\* Line 92: go processQueue()
MI_Go(t) ==
    /\ proc = "running"
    /\ pc[t] = "mi_go"
    /\ drainers' = Append(drainers, [pc |-> "recv", op |-> NoOp, by |-> curInit[t]])
    /\ pc' = [pc EXCEPT ![t] = "mi_log"]
    /\ UNCHANGED <<queueClosed, queue, chanClosed, sink, op, curInit, proc,
                   panics, calls, inits, atClose>>
    /\ UNCHANGED <<webVars, chanCap, appArg, stack, confVars>>

\* Line 94: LogInfo("Logger initialized"), i.e. logWrapper("info", ...) up to
\* its Load of queueClosed.
MI_Log(t) ==
    /\ proc = "running"
    /\ pc[t] = "mi_log"
    /\ LET id == Len(calls) + 1 IN
        /\ calls' = Append(calls, [src |-> "mi", fn |-> "LogInfo", message |-> InitMsg,
                                   init |-> curInit[t], conc |-> Running(t),
                                   post |-> inits[curInit[t]].late,
                                   observed |-> queueClosed, afterClose |-> chanClosed,
                                   pre |-> FALSE, outcome |-> "pending"])
        /\ op' = [op EXCEPT ![t] = LogOperation(id, LevelArg("LogInfo"), InitMsg)]
    /\ pc' = [pc EXCEPT ![t] = AfterLoad(queueClosed)]
    /\ UNCHANGED <<queueClosed, queue, chanClosed, sink, curInit, drainers,
                   proc, panics, inits, atClose>>
    /\ UNCHANGED <<webVars, chanCap, appArg, stack, confVars>>

\* -------------------------------------------------------- processQueue
\* Variant of line 118 that takes the newest record instead of the oldest.
DR_Recv_Lifo(d) ==
    /\ proc = "running"
    /\ d \in DOMAIN drainers
    /\ drainers[d].pc = "recv"
    /\ \/ /\ queue # <<>>
          /\ drainers' = [drainers EXCEPT ![d].pc = "write", ![d].op = queue[Len(queue)]]
          /\ queue' = SubSeq(queue, 1, Len(queue) - 1)
       \/ /\ queue = <<>>
          /\ chanClosed
          /\ drainers' = [drainers EXCEPT ![d].pc = "done"]
          /\ UNCHANGED queue
    /\ UNCHANGED <<queueClosed, chanClosed, sink, pc, op, curInit, proc, panics,
                   calls, inits, atClose>>
    /\ UNCHANGED <<webVars, chanCap, appArg, stack, confVars>>

\* Variant of line 118 that leaves the loop as soon as the channel is closed,
\* whether or not records are left in it.
DR_Recv_EarlyExit(d) ==
    /\ proc = "running"
    /\ d \in DOMAIN drainers
    /\ drainers[d].pc = "recv"
    /\ \/ /\ queue # <<>>
          /\ drainers' = [drainers EXCEPT ![d].pc = "write", ![d].op = Head(queue)]
          /\ queue' = Tail(queue)
       \/ /\ chanClosed
          /\ drainers' = [drainers EXCEPT ![d].pc = "done"]
          /\ UNCHANGED queue
    /\ UNCHANGED <<queueClosed, chanClosed, sink, pc, op, curInit, proc, panics,
                   calls, inits, atClose>>
    /\ UNCHANGED <<webVars, chanCap, appArg, stack, confVars>>

\* Variant of line 118 that never leaves the loop: on a closed and empty
\* channel it keeps waiting.
DR_Recv_NoExit(d) ==
    /\ proc = "running"
    /\ d \in DOMAIN drainers
    /\ drainers[d].pc = "recv"
    /\ queue # <<>>
    /\ drainers' = [drainers EXCEPT ![d].pc = "write", ![d].op = Head(queue)]
    /\ queue' = Tail(queue)
    /\ UNCHANGED <<queueClosed, chanClosed, sink, pc, op, curInit, proc, panics,
                   calls, inits, atClose>>
    /\ UNCHANGED <<webVars, chanCap, appArg, stack, confVars>>

\* Variant of line 118 that reads the head of the channel and leaves it there.
DR_Recv_Peek(d) ==
    /\ proc = "running"
    /\ d \in DOMAIN drainers
    /\ drainers[d].pc = "recv"
    /\ \/ /\ queue # <<>>
          /\ drainers' = [drainers EXCEPT ![d].pc = "write", ![d].op = Head(queue)]
          /\ UNCHANGED queue
       \/ /\ queue = <<>>
          /\ chanClosed
          /\ drainers' = [drainers EXCEPT ![d].pc = "done"]
          /\ UNCHANGED queue
    /\ UNCHANGED <<queueClosed, chanClosed, sink, pc, op, curInit, proc, panics,
                   calls, inits, atClose>>
    /\ UNCHANGED <<webVars, chanCap, appArg, stack, confVars>>

\* Line 118: for op := range queue -- receive the next record, or leave the
\* loop when the channel is closed and empty; block while it is open and empty.
DR_Recv(d) ==
    /\ proc = "running"
    /\ d \in DOMAIN drainers
    /\ drainers[d].pc = "recv"
    /\ \/ /\ queue # <<>>
          /\ drainers' = [drainers EXCEPT ![d].pc = "write", ![d].op = Head(queue)]
          /\ queue' = Tail(queue)
       \/ /\ queue = <<>>
          /\ chanClosed
          /\ drainers' = [drainers EXCEPT ![d].pc = "done"]
          /\ UNCHANGED queue
    /\ UNCHANGED <<queueClosed, chanClosed, sink, pc, op, curInit, proc, panics,
                   calls, inits, atClose>>
    /\ UNCHANGED <<webVars, chanCap, appArg, stack, confVars>>

\* Variant of line 119 that formats the message when the record is drained,
\* from the value the argument has then.
DR_Write_LateFormat(d) ==
    /\ proc = "running"
    /\ d \in DOMAIN drainers
    /\ drainers[d].pc = "write"
    /\ sink' = Append(sink, SinkEvent([drainers[d].op EXCEPT !.message = Sprintf(appArg)], "drain"))
    /\ IF SinkLevel(drainers[d].op.level) = "fatal"
       THEN /\ proc' = "exit"
            /\ drainers' = [drainers EXCEPT ![d].pc = "exit"]
            /\ UNCHANGED panics
       ELSE IF SinkLevel(drainers[d].op.level) = "panic"
       THEN /\ proc' = "crash"
            /\ panics' = panics \cup {"log.Panic"}
            /\ drainers' = [drainers EXCEPT ![d].pc = "panic"]
       ELSE /\ drainers' = [drainers EXCEPT ![d].pc = "recv", ![d].op = NoOp]
            /\ UNCHANGED <<proc, panics>>
    /\ UNCHANGED <<queueClosed, queue, chanClosed, pc, op, curInit,
                   calls, inits, atClose>>
    /\ UNCHANGED <<webVars, chanCap, appArg, stack, confVars>>

\* Variant of line 119 in which log.Fatal and log.Panic return like any other
\* level and the drainer goes on with the next record.
DR_Write_Continue(d) ==
    /\ proc = "running"
    /\ d \in DOMAIN drainers
    /\ drainers[d].pc = "write"
    /\ sink' = Append(sink, SinkEvent(drainers[d].op, "drain"))
    /\ drainers' = [drainers EXCEPT ![d].pc = "recv", ![d].op = NoOp]
    /\ UNCHANGED <<proc, panics>>
    /\ UNCHANGED <<queueClosed, queue, chanClosed, pc, op, curInit,
                   calls, inits, atClose>>
    /\ UNCHANGED <<webVars, chanCap, appArg, stack, confVars>>

\* Line 119: sublogWrapper(op.level, op.message) in the drainer goroutine.
\* Nothing recovers a panic of this goroutine, so log.Panic kills the process.
DR_Write(d) ==
    /\ proc = "running"
    /\ d \in DOMAIN drainers
    /\ drainers[d].pc = "write"
    /\ sink' = Append(sink, SinkEvent(drainers[d].op, "drain"))
    /\ IF SinkLevel(drainers[d].op.level) = "fatal"
       THEN /\ proc' = "exit"
            /\ drainers' = [drainers EXCEPT ![d].pc = "exit"]
            /\ UNCHANGED panics
       ELSE IF SinkLevel(drainers[d].op.level) = "panic"
       THEN /\ proc' = "crash"
            /\ panics' = panics \cup {"log.Panic"}
            /\ drainers' = [drainers EXCEPT ![d].pc = "panic"]
       ELSE /\ drainers' = [drainers EXCEPT ![d].pc = "recv", ![d].op = NoOp]
            /\ UNCHANGED <<proc, panics>>
    /\ UNCHANGED <<queueClosed, queue, chanClosed, pc, op, curInit,
                   calls, inits, atClose>>
    /\ UNCHANGED <<webVars, chanCap, appArg, stack, confVars>>

\* --------------------------------------------------------------- system
Next ==
    \/ \E t \in Threads, fn \in AppFns, msg \in Msgs : LogCall(t, fn, msg)
    \/ \E t \in Threads : LW_Send(t)
    \/ \E t \in Threads : LW_Direct(t)
    \/ \E t \in Threads : MarkInitialized(t)
    \/ \E t \in Threads : MI_Store(t)
    \/ \E t \in Threads : MI_Close(t)
    \/ \E t \in Threads : MI_Go(t)
    \/ \E t \in Threads : MI_Log(t)
    \/ \E d \in 1..MaxInits : DR_Recv(d)
    \/ \E d \in 1..MaxInits : DR_Write(d)

Spec == Init /\ [][Next]_vars

TypeOK ==
    /\ queueClosed \in BOOLEAN
    /\ chanCap \in Nat \ {0}
    /\ chanClosed \in BOOLEAN
    /\ proc \in {"running", "exit", "crash"}
    /\ Len(inits) <= MaxInits

\* ----------------------------------------------- vocabulary of the claims
Ids(seq) == [k \in DOMAIN seq |-> seq[k].id]
SinkPositions(id) == {k \in DOMAIN sink : sink[k].id = id}
InitRecordPositions == {k \in DOMAIN sink : calls[sink[k].id].src = "mi"}
\* Application calls that returned before MarkInitialized was first called.
PreInitCalls == {id \in AppCallIds : calls[id].pre}
\* Sink positions of the records of application calls issued after a
\* MarkInitialized call had returned.
PostInitPositions ==
    {k \in DOMAIN sink : calls[sink[k].id].src = "app" /\ calls[sink[k].id].post}
AtCloseIds == {atClose[j].id : j \in DOMAIN atClose}
FromBacklog(e) == e.id \in AtCloseIds
\* Records a drainer has received and not yet written.
InFlight ==
    IF \E d \in DOMAIN drainers : drainers[d].pc = "write"
    THEN <<(CHOOSE d \in DOMAIN drainers : drainers[d].pc = "write")>>
    ELSE <<>>
InFlightOps == [k \in DOMAIN InFlight |-> drainers[InFlight[k]].op]
\* The drainer has left its loop: channel exhausted, or its own log.Fatal /
\* log.Panic event ended the process.
DrainEnded == \E d \in DOMAIN drainers : drainers[d].pc \in {"done", "exit", "panic"}
\* Call a returned before call b was issued.
Precedes(a, b) == a < b /\ a \notin calls[b].conc

\* C1: under every interleaving of Log* callers with MarkInitialized no
\* Log* call crashes its caller: an insertion attempted after the backlog was
\* closed is absorbed, so no logWrapper call ends in a runtime panic.
C1_NoLogCallPanics ==
    /\ "send on closed channel" \notin panics
    /\ \A id \in DOMAIN calls : calls[id].outcome # "panic"

C3_OneInitRecord ==
    ( /\ Len(inits) >= 2
      /\ \E i \in DOMAIN inits : inits[i].overlap
      /\ \A i \in DOMAIN inits : inits[i].res = "returned" )
    => Cardinality(InitRecordPositions) = 1

\* C4: whatever the number and interleaving of MarkInitialized calls, the
\* drainer is never started twice, it has been started once when the
\* MarkInitialized call that made the transition has returned, and it is
\* started only by a call that took the transition branch, after the flag was
\* set and the channel closed.
C4_DrainerStartedOnce ==
    /\ Len(drainers) <= 1
    /\ (\E i \in DOMAIN inits : inits[i].branch = "transition" /\ inits[i].res = "returned")
          => Len(drainers) = 1
    /\ \A d \in DOMAIN drainers :
        /\ inits[drainers[d].by].branch = "transition"
        /\ queueClosed
        /\ chanClosed

\* Two MarkInitialized calls both took the transition branch; one returned,
\* the other panicked at its close, and one drainer runs.
C4_Witness ==
    /\ Len(inits) >= 2
    /\ \A i \in DOMAIN inits : inits[i].branch = "transition"
    /\ \E i \in DOMAIN inits : inits[i].res = "returned"
    /\ \E i \in DOMAIN inits : inits[i].res = "panicked"
    /\ Len(drainers) = 1

\* C5: the backlog is closed exactly once: close is never executed on an
\* already-closed channel.
C5_NeverCloseClosed == "close of closed channel" \notin panics

\* C6: a MarkInitialized call made after an earlier one returned is a no-op:
\* it raises no error, does not take the transition branch (no state change,
\* no close, no drainer) and adds no record to the Sink output.
C6_LaterCallNoOp ==
    \A i \in DOMAIN inits : inits[i].late =>
        /\ inits[i].branch = "skip"
        /\ inits[i].res # "panicked"
        /\ \A k \in InitRecordPositions : calls[sink[k].id].init # i

\* C7: N <= C Log* calls that all completed before MarkInitialized was
\* called: once MarkInitialized has returned and the drain is over, each of
\* the N records is in the Sink output exactly once, in call order.
C7_AllBufferedDelivered ==
    ( /\ Cardinality(PreInitCalls) <= QueueCap
      /\ NumInitsReturned > 0
      /\ DrainEnded )
    => /\ \A id \in PreInitCalls : Cardinality(SinkPositions(id)) = 1
       /\ \A a, b \in PreInitCalls : Precedes(a, b) =>
              \A ka \in SinkPositions(a), kb \in SinkPositions(b) : ka < kb

\* The k earliest of a set of call ids.
Earliest(S, k) == {id \in S : Cardinality({x \in S : x < id}) < k}

\* C8: N > C sequential Log* calls that all completed before
\* MarkInitialized was called: once MarkInitialized has returned and the
\* drain is over, exactly the earliest C records are in the Sink output, the
\* other N - C are not, and none of the calls failed.
C8_EarliestDelivered ==
    ( /\ Cardinality(PreInitCalls) > QueueCap
      /\ \A a, b \in PreInitCalls : a < b => Precedes(a, b)
      /\ NumInitsReturned > 0
      /\ DrainEnded )
    => /\ \A id \in Earliest(PreInitCalls, QueueCap) : Cardinality(SinkPositions(id)) = 1
       /\ \A id \in PreInitCalls \ Earliest(PreInitCalls, QueueCap) : SinkPositions(id) = {}
       /\ \A id \in PreInitCalls : calls[id].outcome # "panic"

\* C9: the backlog never holds more records than its capacity.
C9_BacklogBounded == Len(queue) <= QueueCap

\* The backlog is full and a Log* call has dropped its record.
C9_Witness ==
    /\ Len(queue) = QueueCap
    /\ \E id \in AppCallIds : calls[id].outcome = "dropped"

\* C10: the lifecycle flag starts as Buffering (false) and never goes back
\* from Direct (true) to Buffering.
C10_LifecycleMonotone == (queueClosed = FALSE) /\ [][queueClosed => queueClosed']_vars

\* The flag is set, a second MarkInitialized call has been made and a Log*
\* call has been routed directly.
C10_Witness ==
    /\ queueClosed
    /\ Len(inits) >= 2
    /\ \E id \in AppCallIds : calls[id].outcome = "direct"

\* C11: every Log* call ends with exactly one of three outcomes for its
\* record -- enqueued, dropped or written directly -- and the record is where
\* that outcome says: in the backlog path (queue, drainer or drained) once, in
\* the Sink by a direct write once, or nowhere.
C11_ExactlyOneOutcome ==
    \A id \in DOMAIN calls :
        /\ calls[id].outcome \in {"pending", "enqueued", "dropped", "direct"}
        /\ calls[id].outcome = "direct" =>
              Cardinality({k \in SinkPositions(id) : sink[k].by = "direct"}) = 1
        /\ calls[id].outcome = "dropped" => SinkPositions(id) = {}

ByDrainer(e) == e.by = "drain"
\* Ids of the records on the backlog path, oldest first: forwarded by the
\* drainer, received by it and not yet written, still in the channel.
BacklogPath == Ids(SelectSeq(sink, ByDrainer)) \o Ids(InFlightOps) \o Ids(queue)
PathPositions(id) == {k \in DOMAIN BacklogPath : BacklogPath[k] = id}
EnqueuedCalls == {id \in DOMAIN calls : calls[id].outcome = "enqueued"}

\* C12: records accepted into the backlog leave it in the order they were
\* enqueued: when call a returned before call b was issued (in particular two
\* calls of one goroutine) and both were enqueued, a is ahead of b on the
\* backlog path, so a is written to Sink before b.
C12_BacklogOrderKept ==
    \A a, b \in EnqueuedCalls : Precedes(a, b) =>
        /\ Cardinality(PathPositions(a)) = 1
        /\ Cardinality(PathPositions(b)) = 1
        /\ \A ka \in PathPositions(a), kb \in PathPositions(b) : ka < kb
        /\ \A kb \in SinkPositions(b) : \E ka \in SinkPositions(a) : ka < kb

\* Two records enqueued one after the other have both been drained.
C12_Witness ==
    \E a, b \in EnqueuedCalls :
        /\ Precedes(a, b)
        /\ \E ka \in SinkPositions(a), kb \in SinkPositions(b) :
              sink[ka].by = "drain" /\ sink[kb].by = "drain"

TerminatingFns == {"LogFatal", "LogPanic"}
\* Outcomes with which logWrapper returns normally to its caller from the
\* buffering branch (line 23).
ReturnedFromBuffering(id) == calls[id].outcome \in {"enqueued", "dropped"}

\* C14: a LogFatal or LogPanic call never returns normally to its caller,
\* in Buffering state as well as in Direct state: once its record is handed
\* over, the process exits (fatal) or the caller's stack unwinds (panic).
C14_FatalNeverReturns ==
    \A id \in AppCallIds : calls[id].fn \in TerminatingFns =>
        /\ ~ReturnedFromBuffering(id)
        /\ (calls[id].fn = "LogFatal" /\ calls[id].outcome = "direct") => proc = "exit"
        /\ (calls[id].fn = "LogPanic" /\ calls[id].outcome = "direct") => "log.Panic" \in panics

\* C15: whenever the backlog has been closed the lifecycle flag is Direct,
\* so every logWrapper call whose Load of line 16 comes after the close
\* reads Direct.
C15_ClosedImpliesDirect ==
    /\ chanClosed => queueClosed
    /\ \A id \in DOMAIN calls : calls[id].afterClose => calls[id].observed

\* A Log* call of the application read the flag after the close.
C15_Witness ==
    /\ chanClosed
    /\ \E id \in AppCallIds : calls[id].afterClose /\ calls[id].observed

\* C16: once MarkInitialized has set the lifecycle flag to Direct, no step
\* inserts a record into the backlog any more.
C16_NoInsertAfterFlip == [][queueClosed => Len(queue') <= Len(queue)]_vars

Drained == Ids(SelectSeq(sink, ByDrainer))
IsPrefix(s, t) == Len(s) <= Len(t) /\ SubSeq(t, 1, Len(s)) = s

\* The drainer has left the loop of line 118 and processQueue has returned.
DrainerReturned == \E d \in DOMAIN drainers : drainers[d].pc = "done"

\* C17: what the drainer forwards to Sink is the backlog contents at the
\* moment of close, in FIFO order: at any time it has forwarded a prefix of
\* them and nothing else, and when it terminates (processQueue returns) the
\* backlog is empty and every record that was accepted into the backlog has
\* been written to Sink by it.
C17_DrainsExactlyBacklog ==
    /\ IsPrefix(Drained, Ids(atClose))
    /\ DrainerReturned =>
          /\ queue = <<>>
          /\ Drained = Ids(atClose)
          /\ \A id \in EnqueuedCalls : \E k \in SinkPositions(id) : sink[k].by = "drain"
          /\ \A k \in DOMAIN sink : sink[k].by = "drain" => sink[k].id \in EnqueuedCalls

\* The drainer has returned after forwarding a full backlog, and the Sink
\* also holds directly written records.
C17_Witness ==
    /\ DrainerReturned
    /\ Len(atClose) = QueueCap
    /\ \E k \in DOMAIN sink : sink[k].by = "direct"

\* Number of Log* calls of the application in the runs explored for
\* termination of the drainer.
MaxLiveCalls == 2

\* LogCall for an application that makes at most MaxLiveCalls Log* calls.
LiveLogCall(t, fn, msg) ==
    /\ Cardinality(AppCallIds) < MaxLiveCalls
    /\ LogCall(t, fn, msg)

LiveNext ==
    \/ \E t \in Threads, fn \in AppFns, msg \in Msgs : LiveLogCall(t, fn, msg)
    \/ \E t \in Threads : LW_Send(t)
    \/ \E t \in Threads : LW_Direct(t)
    \/ \E t \in Threads : MarkInitialized(t)
    \/ \E t \in Threads : MI_Store(t)
    \/ \E t \in Threads : MI_Close(t)
    \/ \E t \in Threads : MI_Go(t)
    \/ \E t \in Threads : MI_Log(t)
    \/ \E d \in 1..MaxInits : DR_Recv(d)
    \/ \E d \in 1..MaxInits : DR_Write(d)

\* The Go scheduler eventually runs a runnable goroutine: the drainer's
\* receive and write steps are taken when they stay enabled.
DrainerFairness == \A d \in 1..MaxInits : WF_vars(DR_Recv(d)) /\ WF_vars(DR_Write(d))
FairSpec == Init /\ [][LiveNext]_vars /\ DrainerFairness

\* C18: once started, the drainer eventually terminates -- processQueue
\* returns once the closed backlog is empty, unless the process ends first --
\* and a drainer that has terminated stays terminated and no other is started.
C18_DrainerTerminates ==
    /\ (Len(drainers) >= 1) ~> (DrainerReturned \/ proc # "running")
    /\ [][\A d \in DOMAIN drainers : drainers[d].pc = "done" =>
              /\ Len(drainers') = Len(drainers)
              /\ drainers'[d] = drainers[d]]_vars

\* The drainer has returned while the process goes on.
C18_Witness ==
    /\ DrainerReturned
    /\ proc = "running"
    /\ Len(Drained) >= 1

\* Calls whose Load of line 16 read the flag as set (lifecycle state Direct).
ObservedDirect == {id \in DOMAIN calls : calls[id].observed}
InFlightIds == {drainers[d].op.id : d \in DOMAIN drainers} \ {0}

\* C19: a Log* call that observes Direct writes its record to Sink in the
\* calling goroutine: when the call has ended its record is in the Sink output
\* exactly once, written by the caller, and the record is never in the
\* backlog nor handled by the drainer.
C19_DirectIsSynchronous ==
    \A id \in ObservedDirect :
        /\ calls[id].outcome \in {"pending", "direct"}
        /\ \A j \in DOMAIN queue : queue[j].id # id
        /\ id \notin AtCloseIds
        /\ id \notin InFlightIds
        /\ \A k \in SinkPositions(id) : sink[k].by = "direct"
        /\ Cardinality(SinkPositions(id)) = IF calls[id].outcome = "direct" THEN 1 ELSE 0

\* An application call that observed Direct has returned with its record
\* written, while records of the backlog were forwarded by the drainer.
C19_Witness ==
    /\ proc = "running"
    /\ \E id \in ObservedDirect \cap AppCallIds :
          /\ calls[id].outcome = "direct"
          /\ \A t \in Threads : op[t].id # id
          /\ SinkPositions(id) # {}
    /\ \E k \in DOMAIN sink : sink[k].by = "drain"

\* Calls whose records were accepted into the channel before call id was
\* issued.  Nothing leaves the channel before it is closed, so while the flag
\* reads false these are the channel's contents when call id is made.
BufferedBefore(id) == {a \in 1..(id - 1) : Precedes(a, id) /\ calls[a].outcome = "enqueued"}
\* Calls made in Buffering state (the Load of line 16 read false) while the
\* channel held QueueCap records.
MadeWhileFull ==
    {id \in DOMAIN calls : ~calls[id].observed /\ Cardinality(BufferedBefore(id)) >= QueueCap}
\* The record of call id is nowhere: not buffered, not with a drainer, not written.
Discarded(id) ==
    /\ \A j \in DOMAIN queue : queue[j].id # id
    /\ id \notin AtCloseIds
    /\ id \notin InFlightIds
    /\ SinkPositions(id) = {}

\* C20: a Log* call made in Buffering state while the backlog is full ends
\* by returning normally with its record dropped -- no error reaches the
\* caller -- the step that ends it leaves the backlog contents and the
\* lifecycle flag as they were, and the record is never retried nor delivered
\* to Sink afterwards.
C20_FullDropIsSilent ==
    /\ [](\A id \in MadeWhileFull :
             /\ calls[id].outcome \in {"pending", "dropped"}
             /\ Discarded(id))
    /\ [][\A id \in MadeWhileFull :
             /\ (calls[id].outcome = "pending" /\ calls'[id].outcome # "pending") =>
                   /\ queue' = queue
                   /\ queueClosed' = queueClosed
                   /\ chanClosed' = chanClosed
                   /\ panics' = panics
                   /\ proc' = proc
             /\ calls[id].outcome = "dropped" => calls'[id].outcome = "dropped"]_vars

\* Goroutines that are inside a logWrapper call.
InLogWrapper == {t \in Threads : op[t].id # 0}
\* The one step logWrapper has left after its Load of line 16.
LogStep(t) == LW_Send(t) \/ LW_Direct(t)

\* C21: no Log* call waits on another goroutine: while the process runs, a
\* goroutine inside logWrapper can always take its own next step, whatever
\* state the channel, the flag, the other callers, MarkInitialized and the
\* drainer are in (channel full included), and that one step ends the call.
C21_LogCallNeverBlocks ==
    /\ [](\A t \in InLogWrapper : proc = "running" =>
             /\ pc[t] \in {"lw_send", "lw_direct"}
             /\ calls[op[t].id].outcome = "pending"
             /\ ENABLED LogStep(t))
    /\ [][\A t \in InLogWrapper :
             pc'[t] # pc[t] => (pc'[t] = "idle" /\ op'[t].id = 0)]_vars

\* A call made against a full channel has ended, dropped, while another
\* goroutine is inside MarkInitialized and has not closed the channel yet.
C21_Witness ==
    /\ proc = "running"
    /\ ~chanClosed
    /\ Len(queue) = QueueCap
    /\ \E id \in MadeWhileFull : calls[id].outcome = "dropped"
    /\ \E u \in Threads : curInit[u] # 0

\* ------------------------------------------- arguments that change
\* The application changes the variable it logs (a counter it increments).
SetArg(t) ==
    /\ proc = "running"
    /\ pc[t] = "idle"
    /\ appArg < MaxArg
    /\ appArg' = appArg + 1
    /\ UNCHANGED <<queueClosed, queue, chanClosed, sink, pc, op, curInit,
                   drainers, proc, panics, calls, inits, atClose>>
    /\ UNCHANGED <<webVars, chanCap, stack, confVars>>

\* A Log* call with the format "x=%d" and the variable as its argument:
\* line 13 formats the message from the value the variable has now.
FmtLogCall(t, fn) == LiveLogCall(t, fn, Sprintf(appArg))

FmtNext ==
    \/ \E t \in Threads, fn \in AppFns : FmtLogCall(t, fn)
    \/ \E t \in Threads : SetArg(t)
    \/ \E t \in Threads : LW_Send(t)
    \/ \E t \in Threads : LW_Direct(t)
    \/ \E t \in Threads : MarkInitialized(t)
    \/ \E t \in Threads : MI_Store(t)
    \/ \E t \in Threads : MI_Close(t)
    \/ \E t \in Threads : MI_Go(t)
    \/ \E t \in Threads : MI_Log(t)
    \/ \E d \in 1..MaxInits : DR_Recv(d)
    \/ \E d \in 1..MaxInits : DR_Write(d)

FmtSpec == Init /\ [][FmtNext]_vars

\* C22: the message is formatted at call time.  calls[id].message is what
\* line 13 produced from the argument's value when call id was made; the
\* record carries that text through the channel and the drainer to Sink,
\* whatever value the argument has by then.
C22_FormattedAtCallTime ==
    /\ \A k \in DOMAIN sink : sink[k].message = calls[sink[k].id].message
    /\ \A j \in DOMAIN queue : queue[j].message = calls[queue[j].id].message
    /\ \A d \in DOMAIN drainers :
          drainers[d].op.id # 0 => drainers[d].op.message = calls[drainers[d].op.id].message

\* Two buffered calls were made with different values of the argument, so
\* the value changed while the first record waited in the backlog, and the
\* drainer has written the first record with the value of its call.
C22_Witness ==
    \E a, b \in AtCloseIds \cap AppCallIds :
        /\ a < b
        /\ calls[a].message = Sprintf(0)
        /\ calls[b].message = Sprintf(1)
        /\ appArg = 1
        /\ \E k \in SinkPositions(a) : sink[k].by = "drain" /\ sink[k].message = Sprintf(0)

\* ------------------------------------------- package config: actions
\* Largest number of SetupLogger calls.
MaxSetups == 2

\* An entry of confLog.  `top` marks the return of a call the application
\* made itself (not one made by another function of package config).
ConfEvent(t, fn, key, res) ==
    [by |-> t, fn |-> fn, key |-> key, res |-> res, ok |-> FALSE, val |-> "",
     files |-> <<>>, top |-> FALSE]
ReturnEvent(t, fn, key, res) == [ConfEvent(t, fn, key, res) EXCEPT !.top = (stack[t] = <<>>)]
SetupCalls == {k \in DOMAIN confLog : confLog[k].fn = "SetupLogger" /\ confLog[k].res = "call"}

LoggerFrame == <<webVars, queueClosed, chanCap, queue, chanClosed, sink, curInit, drainers, panics,
                 inits, atClose, appArg>>

\* Goroutine t returns from a function of package config to its caller.
ConfReturn(t) ==
    /\ pc' = [pc EXCEPT ![t] = Resume(t)]
    /\ stack' = [stack EXCEPT ![t] = Pop(stack[t])]

\* GetEnvOrDefault(key) is entered by goroutine t and runs line 73,
\* os.LookupEnv; `cont` is where its callers go on.
EnterGetEnv(t, key, cont) ==
    LET v == LookupEnv(environ, key) IN
    /\ frame' = [frame EXCEPT ![t].key = key, ![t].ok = v.ok, ![t].val = v.value,
                              ![t].res = IF UseDefault(v) THEN "" ELSE v.value]
    /\ pc' = [pc EXCEPT ![t] = IF UseDefault(v) THEN "ge_info" ELSE "ge_defer"]
    /\ stack' = [stack EXCEPT ![t] = cont \o stack[t]]

\* A Log* call made by a function of package config: logWrapper up to its
\* Load of line 16; `cont` is where the function goes on afterwards.
ConfLogCall(t, fn, msg, cont) ==
    /\ LET id == Len(calls) + 1 IN
        /\ calls' = Append(calls, [src |-> "env", fn |-> fn, message |-> msg, init |-> 0,
                                   conc |-> Running(t), post |-> (NumInitsReturned > 0),
                                   observed |-> queueClosed, afterClose |-> chanClosed,
                                   pre |-> FALSE, outcome |-> "pending"])
        /\ op' = [op EXCEPT ![t] = LogOperation(id, LevelArg(fn), msg)]
    /\ pc' = [pc EXCEPT ![t] = AfterLoad(queueClosed)]
    /\ stack' = [stack EXCEPT ![t] = <<cont>> \o stack[t]]

\* The application calls GetEnvOrDefault(key) (lines 66-73).
GE_Call(t, key) ==
    /\ proc = "running"
    /\ pc[t] = "idle"
    /\ EnterGetEnv(t, key, <<>>)
    /\ UNCHANGED <<LoggerFrame, proc, op, calls, environ, fsys, once, logConf, confLog>>

\* Lines 75-78: logger.LogInfo("Environment variable %s not set, ...").
GE_Info(t) ==
    /\ proc = "running"
    /\ pc[t] = "ge_info"
    /\ ConfLogCall(t, "LogInfo", NotSetMsg(frame[t].key), "ge_defer")
    /\ UNCHANGED <<LoggerFrame, proc, confVars>>

\* Line 83 (return EnvBackendDefaults[key]) on the default path, then the
\* deferred logger.LogTrace of lines 67-72, which reads the result.
GE_Defer(t) ==
    /\ proc = "running"
    /\ pc[t] = "ge_defer"
    /\ LET res == IF UseDefault([value |-> frame[t].val, ok |-> frame[t].ok])
                  THEN MapIndex(EnvBackendDefaults, frame[t].key)
                  ELSE frame[t].res IN
        /\ frame' = [frame EXCEPT ![t].res = res]
        /\ ConfLogCall(t, "LogTrace", ResultMsg(frame[t].key, res), "ge_ret")
    /\ UNCHANGED <<LoggerFrame, proc, environ, fsys, once, logConf, confLog>>

\* GetEnvOrDefault returns res to its caller.
GE_Ret(t) ==
    /\ proc = "running"
    /\ pc[t] = "ge_ret"
    /\ confLog' = Append(confLog,
           [ReturnEvent(t, "GetEnvOrDefault", frame[t].key, frame[t].res) EXCEPT
               !.ok = frame[t].ok, !.val = frame[t].val])
    /\ ConfReturn(t)
    /\ UNCHANGED <<LoggerFrame, proc, op, calls, environ, fsys, once, logConf, frame>>

\* The application calls GetEnvFilesList (line 106: GetEnvOrDefault of the profile).
GF_Call(t) ==
    /\ proc = "running"
    /\ pc[t] = "idle"
    /\ EnterGetEnv(t, EnvBackendProfile, <<"gf_build">>)
    /\ UNCHANGED <<LoggerFrame, proc, op, calls, environ, fsys, once, logConf, confLog>>

\* Lines 107-116: the list is built and returned.
GF_Build(t) ==
    /\ proc = "running"
    /\ pc[t] = "gf_build"
    /\ frame' = [frame EXCEPT ![t].files = FilesList(frame[t].res)]
    /\ confLog' = Append(confLog,
           [ReturnEvent(t, "GetEnvFilesList", frame[t].res, "") EXCEPT
               !.files = FilesList(frame[t].res)])
    /\ ConfReturn(t)
    /\ UNCHANGED <<LoggerFrame, proc, op, calls, environ, fsys, once, logConf>>

\* The application calls LoadEnvs (line 90: GetEnvFilesList).
LE_Call(t) ==
    /\ proc = "running"
    /\ pc[t] = "idle"
    /\ EnterGetEnv(t, EnvBackendProfile, <<"gf_build", "le_load">>)
    /\ UNCHANGED <<LoggerFrame, proc, op, calls, environ, fsys, once, logConf, confLog>>

\* Lines 91-94: godotenv.Load of the next file of the list.
LE_Load(t) ==
    /\ proc = "running"
    /\ pc[t] = "le_load"
    /\ frame[t].files # <<>>
    /\ environ' = DotenvLoad(environ, fsys.dotenv, Head(frame[t].files))
    /\ frame' = [frame EXCEPT ![t].files = Tail(frame[t].files)]
    /\ confLog' = Append(confLog, ConfEvent(t, "godotenv.Load", Head(frame[t].files), ""))
    /\ UNCHANGED <<LoggerFrame, proc, pc, op, calls, stack, fsys, once, logConf>>

\* Line 97: GetEnvOrDefault(gin.EnvGinMode), after the loop.
LE_GinMode(t) ==
    /\ proc = "running"
    /\ pc[t] = "le_load"
    /\ frame[t].files = <<>>
    /\ EnterGetEnv(t, EnvGinMode, <<"le_mode">>)
    /\ UNCHANGED <<LoggerFrame, proc, op, calls, environ, fsys, once, logConf, confLog>>

\* Line 98: gin.SetMode(ginMode), which panics on an unknown mode; nothing
\* recovers a panic of the main goroutine.  LoadEnvs then returns.
LE_SetMode(t) ==
    /\ proc = "running"
    /\ pc[t] = "le_mode"
    /\ IF frame[t].res \in GinModes
       THEN /\ confLog' = Append(confLog, ReturnEvent(t, "LoadEnvs", "", frame[t].res))
            /\ ConfReturn(t)
            /\ UNCHANGED <<proc, panics>>
       ELSE /\ confLog' = Append(confLog, ConfEvent(t, "gin.SetMode", "", "panic"))
            /\ proc' = "crash"
            /\ panics' = panics \cup {"gin mode unknown"}
            /\ UNCHANGED <<pc, stack>>
    /\ UNCHANGED <<queueClosed, queue, chanClosed, sink, curInit, drainers,
                   inits, atClose, webVars, chanCap, appArg, op, calls, environ, fsys, once, logConf, frame>>

\* ------------------------------------------------------- SetupLogger
\* The keys SetupLogger reads, in the order of lines 138-141.
SetupKeys == <<EnvBackendLogLevel, EnvBackendLogFormat, EnvBackendLogFile, EnvBackendLogOutput>>

\* SetupLogger is called: once.Do reads the done flag (sync.Once's fast path)
\* and returns at once when it is set.
SL_Call(t) ==
    /\ proc = "running"
    /\ pc[t] = "idle"
    /\ Cardinality(SetupCalls) < MaxSetups
    /\ IF once.done
       THEN /\ confLog' = confLog \o <<ConfEvent(t, "SetupLogger", "", "call"),
                                       ReturnEvent(t, "SetupLogger", "", "return")>>
            /\ UNCHANGED pc
       ELSE /\ confLog' = Append(confLog, ConfEvent(t, "SetupLogger", "", "call"))
            /\ pc' = [pc EXCEPT ![t] = "sl_lock"]
    /\ UNCHANGED <<LoggerFrame, proc, op, calls, stack, environ, fsys, once, logConf, frame>>

\* Variant of once.Do's slow path that does not read the done flag again
\* after locking the mutex.
SL_Lock_NoRecheck(t) ==
    /\ proc = "running"
    /\ pc[t] = "sl_lock"
    /\ once.mu = 0
    /\ once' = [once EXCEPT !.mu = t]
    /\ frame' = [frame EXCEPT ![t].vals = <<>>]
    /\ pc' = [pc EXCEPT ![t] = "sl_env"]
    /\ UNCHANGED confLog
    /\ UNCHANGED <<LoggerFrame, proc, op, calls, stack, environ, fsys, logConf>>

\* once.Do's slow path: lock the mutex (waiting while another goroutine holds
\* it), read the done flag again, and run the function if it is still unset.
SL_Lock(t) ==
    /\ proc = "running"
    /\ pc[t] = "sl_lock"
    /\ once.mu = 0
    /\ IF once.done
       THEN /\ confLog' = Append(confLog, ReturnEvent(t, "SetupLogger", "", "return"))
            /\ pc' = [pc EXCEPT ![t] = "idle"]
            /\ UNCHANGED <<once, frame>>
       ELSE /\ once' = [once EXCEPT !.mu = t]
            /\ frame' = [frame EXCEPT ![t].vals = <<>>]
            /\ pc' = [pc EXCEPT ![t] = "sl_env"]
            /\ UNCHANGED confLog
    /\ UNCHANGED <<LoggerFrame, proc, op, calls, stack, environ, fsys, logConf>>

\* Lines 138-141: the next GetEnvOrDefault call.
SL_Env(t) ==
    /\ proc = "running"
    /\ pc[t] = "sl_env"
    /\ EnterGetEnv(t, SetupKeys[Len(frame[t].vals) + 1], <<"sl_got">>)
    /\ UNCHANGED <<LoggerFrame, proc, op, calls, environ, fsys, once, logConf, confLog>>

\* Variant of lines 138-141 that goes on to logger.MarkInitialized as soon
\* as the four values are read, without configuring zerolog.
SL_Got_SkipConfig(t) ==
    /\ proc = "running"
    /\ pc[t] = "sl_got"
    /\ frame' = [frame EXCEPT ![t].vals = Append(frame[t].vals, frame[t].res)]
    /\ pc' = [pc EXCEPT ![t] = IF Len(frame[t].vals) + 1 = Len(SetupKeys)
                               THEN "sl_mark" ELSE "sl_env"]
    /\ UNCHANGED <<LoggerFrame, proc, op, calls, stack, environ, fsys, once, logConf, confLog>>

\* Lines 138-141: the result is assigned to level, format, file or output.
SL_Got(t) ==
    /\ proc = "running"
    /\ pc[t] = "sl_got"
    /\ frame' = [frame EXCEPT ![t].vals = Append(frame[t].vals, frame[t].res)]
    /\ pc' = [pc EXCEPT ![t] = IF Len(frame[t].vals) + 1 = Len(SetupKeys)
                               THEN "sl_level" ELSE "sl_env"]
    /\ UNCHANGED <<LoggerFrame, proc, op, calls, stack, environ, fsys, once, logConf, confLog>>

\* log.Fatal().Err(err).Msg(msg) in SetupLogger: zerolog writes the event
\* itself (not through the facade) and calls os.Exit(1).
SetupFatal(t, msg) ==
    /\ confLog' = Append(confLog, ConfEvent(t, "log.Fatal", "", msg))
    /\ proc' = "exit"

\* Lines 143-147: zerolog.ParseLevel, then zerolog.SetGlobalLevel.
SL_Level(t) ==
    /\ proc = "running"
    /\ pc[t] = "sl_level"
    /\ IF ParseLevelOK(frame[t].vals[1])
       THEN /\ logConf' = [logConf EXCEPT !.level = frame[t].vals[1]]
            /\ confLog' = Append(confLog,
                   ConfEvent(t, "zerolog.SetGlobalLevel", "", frame[t].vals[1]))
            /\ pc' = [pc EXCEPT ![t] = "sl_format"]
            /\ UNCHANGED proc
       ELSE /\ SetupFatal(t, "Failed to parse log level")
            /\ UNCHANGED <<logConf, pc>>
    /\ UNCHANGED <<LoggerFrame, op, calls, stack, environ, fsys, once, frame>>

\* Lines 149-157: the writer of log.Logger for the format.
SL_Format(t) ==
    /\ proc = "running"
    /\ pc[t] = "sl_format"
    /\ LET w == IF frame[t].vals[2] = "pretty"
                THEN "zerolog.ConsoleWriter{Out: os.Stdout}"
                ELSE "zerolog.NewConsoleWriter()" IN
        /\ logConf' = [logConf EXCEPT !.writer = w]
        /\ confLog' = Append(confLog, ConfEvent(t, "log.Logger.Output", "format", w))
    /\ pc' = [pc EXCEPT ![t] = "sl_output"]
    /\ UNCHANGED <<LoggerFrame, proc, op, calls, stack, environ, fsys, once, frame>>

\* Lines 159-167: the log file is opened and made the writer when the
\* output is "file".
SL_Output(t) ==
    /\ proc = "running"
    /\ pc[t] = "sl_output"
    /\ IF frame[t].vals[4] # "file"
       THEN /\ pc' = [pc EXCEPT ![t] = "sl_mark"]
            /\ UNCHANGED <<logConf, confLog, proc>>
       ELSE IF fsys.canOpenLog
       THEN /\ logConf' = [logConf EXCEPT !.writer = "file " \o frame[t].vals[3]]
            /\ confLog' = Append(confLog,
                   ConfEvent(t, "log.Logger.Output", "file", "file " \o frame[t].vals[3]))
            /\ pc' = [pc EXCEPT ![t] = "sl_mark"]
            /\ UNCHANGED proc
       ELSE /\ SetupFatal(t, "Failed to open log file")
            /\ UNCHANGED <<logConf, pc>>
    /\ UNCHANGED <<LoggerFrame, op, calls, stack, environ, fsys, once, frame>>

\* Line 169: logger.MarkInitialized(), up to its Load of line 89.
SL_Mark(t) ==
    /\ proc = "running"
    /\ pc[t] = "sl_mark"
    /\ inits' = Append(inits, [res |-> "running",
                               branch |-> IF ~queueClosed THEN "transition" ELSE "skip",
                               late |-> (NumInitsReturned > 0),
                               overlap |-> (\E u \in Threads : curInit[u] # 0)])
    /\ curInit' = [curInit EXCEPT ![t] = Len(inits) + 1]
    /\ pc' = [pc EXCEPT ![t] = IF ~queueClosed THEN "mi_store" ELSE "mi_log"]
    /\ stack' = [stack EXCEPT ![t] = <<"sl_done">> \o stack[t]]
    /\ confLog' = Append(confLog, ConfEvent(t, "logger.MarkInitialized", "", ""))
    /\ UNCHANGED <<queueClosed, queue, chanClosed, sink, op, drainers, proc, panics,
                   calls, atClose, webVars, chanCap, appArg, environ, fsys, once, logConf, frame>>

\* The function passed to once.Do has returned: sync.Once sets its done
\* flag and unlocks its mutex; SetupLogger returns.
SL_Done(t) ==
    /\ proc = "running"
    /\ pc[t] = "sl_done"
    /\ once' = [done |-> TRUE, mu |-> 0]
    /\ confLog' = Append(confLog, ReturnEvent(t, "SetupLogger", "", "return"))
    /\ ConfReturn(t)
    /\ UNCHANGED <<LoggerFrame, proc, op, calls, environ, fsys, logConf, frame>>

\* ------------------------------------- SetupLogger under concurrency
\* Marks a variable as absent when an environment is written down.
Unset == "<unset>"
\* The environment in which the variables f maps to a value are set.
MakeEnv(f) == [k \in {x \in DOMAIN f : f[x] # Unset} |-> f[k]]

\* Environments SetupLogger is run in: the level unset (default "info"),
\* valid or unparseable; the output unset (default "console") or "file".
SetupEnvs ==
    {MakeEnv((EnvBackendLogLevel :> l) @@ (EnvBackendLogOutput :> o)) :
        l \in {Unset, "debug", "verbose"}, o \in {Unset, "file"}}

SetupInit ==
    /\ LoggerInit
    /\ \E env \in SetupEnvs, canOpen \in BOOLEAN : ConfInit(env, <<>>, canOpen)
    /\ WebIdle

\* Number of Log* calls the application makes around SetupLogger.
MaxSetupLogs == 1

\* A LogInfo call of the application.
SetupLogCall(t, msg) ==
    /\ Cardinality(AppCallIds) < MaxSetupLogs
    /\ LogCall(t, "LogInfo", msg)

\* Goroutines call SetupLogger and Log* in any order and concurrently;
\* MarkInitialized is called by SetupLogger only (line 169).
SetupNext ==
    \/ \E t \in Threads : SL_Call(t)
    \/ \E t \in Threads : SL_Lock(t)
    \/ \E t \in Threads : SL_Env(t)
    \/ \E t \in Threads : SL_Got(t)
    \/ \E t \in Threads : SL_Level(t)
    \/ \E t \in Threads : SL_Format(t)
    \/ \E t \in Threads : SL_Output(t)
    \/ \E t \in Threads : SL_Mark(t)
    \/ \E t \in Threads : SL_Done(t)
    \/ \E t \in Threads : GE_Info(t)
    \/ \E t \in Threads : GE_Defer(t)
    \/ \E t \in Threads : GE_Ret(t)
    \/ \E t \in Threads, msg \in Msgs : SetupLogCall(t, msg)
    \/ \E t \in Threads : LW_Send(t)
    \/ \E t \in Threads : LW_Direct(t)
    \/ \E t \in Threads : MI_Store(t)
    \/ \E t \in Threads : MI_Close(t)
    \/ \E t \in Threads : MI_Go(t)
    \/ \E t \in Threads : MI_Log(t)
    \/ \E d \in 1..MaxInits : DR_Recv(d)
    \/ \E d \in 1..MaxInits : DR_Write(d)

SetupSpec == SetupInit /\ [][SetupNext]_vars

\* ----------------------------------------------- claims on package config
Events(fn) == {k \in DOMAIN confLog : confLog[k].fn = fn}
SetupReturns == {k \in Events("SetupLogger") : confLog[k].res = "return"}
\* Goroutines that are inside the function SetupLogger passes to once.Do.
InSetupBody ==
    {t \in Threads : pc[t] \in {"sl_env", "sl_got", "sl_level", "sl_format", "sl_output",
                                "sl_mark", "sl_done"}
                     \/ stack[t] # <<>>}

\* C23: however many goroutines call SetupLogger, one after the other or at
\* the same time, the sink is configured at most once and
\* logger.MarkInitialized is called at most once; at most one goroutine is
\* inside the guarded function at a time, and it holds sync.Once's mutex.
C23_SetupOnce ==
    /\ Cardinality(Events("zerolog.SetGlobalLevel")) <= 1
    /\ Cardinality({k \in Events("log.Logger.Output") : confLog[k].key = "format"}) <= 1
    /\ Cardinality({k \in Events("log.Logger.Output") : confLog[k].key = "file"}) <= 1
    /\ Cardinality(Events("logger.MarkInitialized")) <= 1
    /\ Len(inits) <= 1
    /\ Cardinality(InSetupBody) <= 1
    /\ \A t \in InSetupBody : once.mu = t /\ ~once.done

\* Two SetupLogger calls have returned, the second one made while the first
\* was still running the guarded function, and MarkInitialized ran once.
C23_Witness ==
    /\ Cardinality(SetupReturns) = 2
    /\ Len(inits) = 1
    /\ \E c \in SetupCalls, m \in Events("logger.MarkInitialized") :
          /\ c < m
          /\ confLog[c].by # confLog[m].by

\* GetEnvOrDefault as a function of the environment (lines 73-85).
EnvOrDefault(env, key) ==
    IF UseDefault(LookupEnv(env, key)) THEN MapIndex(EnvBackendDefaults, key)
    ELSE LookupEnv(env, key).value
\* The sink has the level, format and destination the environment asks for.
SinkConfigured ==
    /\ logConf.level = EnvOrDefault(environ, EnvBackendLogLevel)
    /\ IF EnvOrDefault(environ, EnvBackendLogOutput) = "file"
       THEN logConf.writer = "file " \o EnvOrDefault(environ, EnvBackendLogFile)
       ELSE logConf.writer \in {"zerolog.ConsoleWriter{Out: os.Stdout}",
                                "zerolog.NewConsoleWriter()"}
\* Positions in confLog of the configuration steps of SetupLogger.
ConfigSteps == Events("zerolog.SetGlobalLevel") \cup Events("log.Logger.Output")

\* C24: MarkInitialized is called only after the sink's level, format and
\* destination are configured, so no record passed to the facade is written
\* to Sink before the configuration is complete, and the configuration does
\* not change once MarkInitialized has been called.
C24_ConfiguredBeforeInit ==
    /\ [](/\ \A m \in Events("logger.MarkInitialized") :
                /\ SinkConfigured
                /\ \A c \in ConfigSteps : c < m
                /\ Events("zerolog.SetGlobalLevel") # {}
          /\ (inits # <<>> \/ queueClosed \/ chanClosed \/ drainers # <<>>) =>
                Events("logger.MarkInitialized") # {}
          /\ sink # <<>> => (SinkConfigured /\ Events("logger.MarkInitialized") # {}))
    /\ [][Events("logger.MarkInitialized") # {} => logConf' = logConf]_vars

\* Records buffered while SetupLogger ran have been written by the drainer
\* to a sink configured for file output, and a Log* call of the application
\* has written directly.
C24_Witness ==
    /\ logConf.writer = "file backend.log"
    /\ \E k \in DOMAIN sink : sink[k].by = "drain" /\ calls[sink[k].id].src = "env"
    /\ \E k \in DOMAIN sink : sink[k].by = "direct" /\ calls[sink[k].id].src = "app"

\* The environment names a level zerolog.ParseLevel rejects, or asks for
\* file output while the log file cannot be opened.
UnparseableLevel == EnvOrDefault(environ, EnvBackendLogLevel) \notin LevelNames
UnopenableFile == EnvOrDefault(environ, EnvBackendLogOutput) = "file" /\ ~fsys.canOpenLog
Misconfigured == UnparseableLevel \/ UnopenableFile
FatalEvents == Events("log.Fatal")

\* C25: with an unparseable level or an unopenable log file, SetupLogger
\* ends the process (log.Fatal) when it reaches the failing step: it never
\* goes on to MarkInitialized and never returns, so the lifecycle state is
\* still Buffering and nothing has reached Sink when the process ends; and
\* it ends the process in no other case.
C25_MisconfigurationIsFatal ==
    /\ Misconfigured =>
          /\ inits = <<>> /\ Events("logger.MarkInitialized") = {}
          /\ ~queueClosed /\ ~chanClosed /\ drainers = <<>> /\ sink = <<>>
          /\ SetupReturns = {} /\ ~once.done
          /\ \A t \in Threads : pc[t] \notin {"sl_mark", "sl_done"}
          /\ \A t \in Threads : (pc[t] = "sl_format" => ~UnparseableLevel)
          /\ proc \in {"running", "exit"}
    /\ FatalEvents # {} <=> (proc = "exit")
    /\ \A k \in FatalEvents :
          /\ Misconfigured
          /\ confLog[k].res = IF UnparseableLevel THEN "Failed to parse log level"
                              ELSE "Failed to open log file"

\* The process has ended because the log file could not be opened, with
\* records still in the backlog and the lifecycle state Buffering.
C25_Witness ==
    /\ proc = "exit"
    /\ \E k \in FatalEvents : confLog[k].res = "Failed to open log file"
    /\ Len(queue) = QueueCap
    /\ ~queueClosed

\* ----------------------------- package config on the main goroutine
\* The goroutine that runs main; GetEnvOrDefault, GetEnvFilesList, LoadEnvs
\* and SetupLogger are called from it only (main.go, part_000).
MainThread == 1
\* Number of calls of functions of package config main makes.
MaxMainCalls == 2

\* Environments: the profile unset, empty, "production", "test" or another
\* name; the port unset, empty or set; one key without a default unset or set.
MainEnvs ==
    {MakeEnv((EnvBackendProfile :> p) @@ (EnvBackendPort :> q) @@ ("DB_HOST" :> h)) :
        p \in {Unset, "", "production", "test", "dev"},
        q \in {Unset, "", "8080"},
        h \in {Unset, "db.local"}}
\* .env files: each file that exists sets the port to its own name.
DotenvNames == {".env", ".env.local", ".env.dev", ".env.test.local"}
Dotenvs == {[f \in S |-> (EnvBackendPort :> f)] : S \in SUBSET DotenvNames}
\* Keys main asks GetEnvOrDefault for.
MainKeys == {EnvBackendPort, "DB_HOST"}

MainInit ==
    /\ LoggerInit
    /\ \E env \in MainEnvs, dotenv \in Dotenvs : ConfInit(env, dotenv, TRUE)
    /\ WebIdle

\* Calls of package config that main has made and that have returned.
TopReturns == {k \in DOMAIN confLog : confLog[k].top}
MayCall == Cardinality(TopReturns) < MaxMainCalls

MainNext ==
    \/ \E key \in MainKeys : MayCall /\ GE_Call(MainThread, key)
    \/ MayCall /\ GF_Call(MainThread)
    \/ MayCall /\ LE_Call(MainThread)
    \/ MayCall /\ SL_Call(MainThread)
    \/ GE_Info(MainThread)
    \/ GE_Defer(MainThread)
    \/ GE_Ret(MainThread)
    \/ GF_Build(MainThread)
    \/ LE_Load(MainThread)
    \/ LE_GinMode(MainThread)
    \/ LE_SetMode(MainThread)
    \/ SL_Lock(MainThread)
    \/ SL_Env(MainThread)
    \/ SL_Got(MainThread)
    \/ SL_Level(MainThread)
    \/ SL_Format(MainThread)
    \/ SL_Output(MainThread)
    \/ SL_Mark(MainThread)
    \/ SL_Done(MainThread)
    \/ LW_Send(MainThread)
    \/ LW_Direct(MainThread)
    \/ MI_Store(MainThread)
    \/ MI_Close(MainThread)
    \/ MI_Go(MainThread)
    \/ MI_Log(MainThread)
    \/ \E d \in 1..MaxInits : DR_Recv(d)
    \/ \E d \in 1..MaxInits : DR_Write(d)

MainSpec == MainInit /\ [][MainNext]_vars

GetEnvReturns == Events("GetEnvOrDefault")
\* No godotenv.Load ran after confLog position k.
NoLoadSince(k) == \A j \in Events("godotenv.Load") : j < k

\* C26: GetEnvOrDefault(key) returns the variable's value when the variable
\* is set and non-empty, and EnvBackendDefaults[key] when it is unset or set
\* to the empty string; ok/val are what os.LookupEnv gave the call.
C26_ValueOrDefault ==
    \A k \in GetEnvReturns :
        LET e == confLog[k] IN
        /\ e.res = IF e.ok /\ e.val # "" THEN e.val ELSE MapIndex(EnvBackendDefaults, e.key)
        /\ e.ok => (e.key \in DOMAIN environ /\ environ[e.key] = e.val)
        /\ (~e.ok /\ NoLoadSince(k)) => e.key \notin DOMAIN environ

\* One call returned the default for a variable set to the empty string,
\* another the value of a set variable, and records the calls logged were
\* accepted into the backlog.
C26_Witness ==
    /\ \E k \in GetEnvReturns :
          confLog[k].ok /\ confLog[k].val = "" /\ confLog[k].res = "1369"
    /\ \E k \in GetEnvReturns :
          confLog[k].ok /\ confLog[k].val # "" /\ confLog[k].res = confLog[k].val
    /\ \E id \in DOMAIN calls : calls[id].src = "env" /\ calls[id].outcome = "enqueued"

\* C27: when the variable is not set and the key has no entry in
\* EnvBackendDefaults, GetEnvOrDefault panics, so no such call returns.
C27_MissingDefaultPanics ==
    \A k \in GetEnvReturns :
        ~confLog[k].ok => confLog[k].key \in DOMAIN EnvBackendDefaults

\* The list GetEnvFilesList is to return for a profile.
ExpectedFiles(P) ==
    IF P = "production" THEN <<".env">>
    ELSE IF P = "test" THEN <<".env.test.local", ".env.test", ".env">>
    ELSE <<".env." \o P \o ".local", ".env.local", ".env." \o P, ".env">>
Range(seq) == {seq[i] : i \in DOMAIN seq}
\* The files of list fl that exist and set the variable key.
Setting(fl, key) ==
    {i \in DOMAIN fl : fl[i] \in DOMAIN fsys.dotenv /\ key \in DOMAIN fsys.dotenv[fl[i]]}
\* The value of key comes from the earliest file of list fl that sets it,
\* unless the process environment had the variable already.
EarlierWins(fl, key) ==
    /\ Setting(fl, key) # {} => key \in DOMAIN environ
    /\ \A i \in Setting(fl, key) :
          environ[key] = fsys.dotenv[fl[i]][key] => \A j \in Setting(fl, key) : i <= j

\* C28: GetEnvFilesList returns [".env"] for "production", [".env.test.local",
\* ".env.test", ".env"] for "test" and [".env.P.local", ".env.local", ".env.P",
\* ".env"] for any other profile P, where P is GetEnvOrDefault of the profile
\* variable; ".env" is last, ".env.local" is left out for "test" and
\* "production", and once LoadEnvs has loaded the list a variable has the
\* value of the earliest file that sets it.
C28_FilesByProfile ==
    /\ \A k \in Events("GetEnvFilesList") :
          LET P == confLog[k].key
              fl == confLog[k].files IN
          /\ (k - 1) \in GetEnvReturns /\ confLog[k - 1].key = EnvBackendProfile
          /\ P = confLog[k - 1].res
          /\ fl = ExpectedFiles(P)
          /\ fl[Len(fl)] = ".env"
          /\ P \in {"test", "production"} => ".env.local" \notin Range(fl)
    /\ \A k \in Events("LoadEnvs") :
          \E g \in Events("GetEnvFilesList") :
              g < k /\ EarlierWins(confLog[g].files, EnvBackendPort)

\* LoadEnvs has run for a profile other than "test" and "production" with
\* two of the listed files setting the port, and the earlier one won.
C28_Witness ==
    /\ \E k \in Events("LoadEnvs"), g \in Events("GetEnvFilesList") :
          /\ g < k
          /\ confLog[g].key = "dev"
          /\ Len(confLog[g].files) = 4
    /\ {".env.local", ".env"} \subseteq DOMAIN fsys.dotenv
    /\ ".env.dev" \notin DOMAIN fsys.dotenv
    /\ environ[EnvBackendPort] = ".env.local"

\* ------------------------------------------------- all seven entry points
\* An application that uses every Log* entry point.
LevelNext ==
    \/ \E t \in Threads, fn \in LogFns, msg \in Msgs : LiveLogCall(t, fn, msg)
    \/ \E t \in Threads : LW_Send(t)
    \/ \E t \in Threads : LW_Direct(t)
    \/ \E t \in Threads : MarkInitialized(t)
    \/ \E t \in Threads : MI_Store(t)
    \/ \E t \in Threads : MI_Close(t)
    \/ \E t \in Threads : MI_Go(t)
    \/ \E t \in Threads : MI_Log(t)
    \/ \E d \in 1..MaxInits : DR_Recv(d)
    \/ \E d \in 1..MaxInits : DR_Write(d)

LevelSpec == Init /\ [][LevelNext]_vars

\* The severity each entry point stands for.
Severity ==
    ("LogTrace" :> "trace") @@ ("LogDebug" :> "debug") @@ ("LogInfo" :> "info") @@
    ("LogWarn" :> "warn") @@ ("LogError" :> "error") @@ ("LogFatal" :> "fatal") @@
    ("LogPanic" :> "panic")

\* C29: a record is written to Sink at the severity of the entry point that
\* produced it, whether the caller wrote it directly or the drainer forwarded
\* it, and it keeps that severity in the backlog and in the drainer's hands;
\* the route a call takes is decided by what its Load of the lifecycle flag
\* read, whatever the severity.
C29_SeverityPreserved ==
    /\ \A k \in DOMAIN sink : sink[k].level = Severity[calls[sink[k].id].fn]
    /\ \A j \in DOMAIN queue : queue[j].level = Severity[calls[queue[j].id].fn]
    /\ \A d \in DOMAIN drainers :
          drainers[d].op.id # 0 => drainers[d].op.level = Severity[calls[drainers[d].op.id].fn]
    /\ \A t \in InLogWrapper :
          pc[t] = IF calls[op[t].id].observed THEN "lw_direct" ELSE "lw_send"
    /\ \A id \in DOMAIN calls :
          /\ calls[id].outcome = "direct" => calls[id].observed
          /\ calls[id].outcome \in {"enqueued", "dropped", "panic"} => ~calls[id].observed

\* A trace record went through the backlog and the drainer, and a record of
\* another severity was written directly.
C29_Witness ==
    /\ \E k \in DOMAIN sink :
          sink[k].by = "drain" /\ sink[k].level = "trace" /\ calls[sink[k].id].fn = "LogTrace"
    /\ \E k \in DOMAIN sink :
          /\ sink[k].by = "direct" /\ calls[sink[k].id].src = "app"
          /\ sink[k].level \in {"debug", "warn", "error"}

\* C30: every Sink write is the record of one logWrapper call -- a Log* call
\* of the application or MarkInitialized's own "Logger initialized" -- with
\* that call's level and message, and no call's record is written twice; a
\* record is in one place at a time (the channel, a drainer's hands or Sink).
C30_NoDuplicateNoFabrication ==
    /\ \A k \in DOMAIN sink :
          /\ sink[k].id \in DOMAIN calls
          /\ sink[k].level = Severity[calls[sink[k].id].fn]
          /\ sink[k].message = calls[sink[k].id].message
          /\ calls[sink[k].id].src = "mi" => sink[k].message = InitMsg
    /\ \A id \in DOMAIN calls :
          Cardinality(SinkPositions(id))
            + Cardinality({j \in DOMAIN queue : queue[j].id = id})
            + Cardinality({d \in DOMAIN drainers : drainers[d].pc = "write" /\ drainers[d].op.id = id})
            <= 1

\* Sink holds a full backlog forwarded by the drainer, a direct write of
\* the application and MarkInitialized's record, each once.
C30_Witness ==
    /\ Cardinality({k \in DOMAIN sink : sink[k].by = "drain"}) = QueueCap
    /\ \E k \in DOMAIN sink : sink[k].by = "direct" /\ calls[sink[k].id].src = "app"
    /\ InitRecordPositions # {}
    /\ DrainerReturned

\* ------------------------------------------------------------------ C31
Terminal(level) == level \in {"fatal", "panic"}

\* Positions of Sink holding a fatal or panic record forwarded by the drainer.
DrainedTerminal == {k \in DOMAIN sink : sink[k].by = "drain" /\ Terminal(sink[k].level)}

\* C31: a fatal or panic record that was buffered does not end the process at
\* the LogFatal/LogPanic call (the call enqueues and returns with the process
\* running); the process ends in the step in which the drainer forwards the
\* record, so that record is the last one of Sink for ever and the backlog
\* records behind it stay unwritten.
C31_BufferedFatalEndsAtDrain ==
    /\ [](\A k \in DrainedTerminal :
            /\ proc # "running"
            /\ k = Len(sink)
            /\ \A j \in DOMAIN queue : SinkPositions(queue[j].id) = {})
    /\ [][\A t \in Threads :
            (pc[t] = "lw_send" /\ pc'[t] # "lw_send" /\ Terminal(SinkLevel(op[t].level))
               /\ calls'[op[t].id].outcome = "enqueued")
            => (proc' = "running" /\ sink' = sink /\ pc'[t] = Resume(t))]_vars
    /\ [][\A d \in DOMAIN drainers :
            (drainers[d].pc = "write" /\ drainers'[d] # drainers[d]
               /\ Terminal(SinkLevel(drainers[d].op.level)))
            => (proc' # "running" /\ Len(sink') = Len(sink) + 1
                  /\ sink'[Len(sink')].id = drainers[d].op.id)]_vars
    /\ [][proc # "running" => (sink' = sink /\ queue' = queue)]_vars

\* The drainer has forwarded a buffered LogFatal record, the process has
\* exited, and a record enqueued behind it is still in the channel.
C31_Witness ==
    /\ proc = "exit"
    /\ sink # <<>>
    /\ sink[Len(sink)].by = "drain"
    /\ sink[Len(sink)].level = "fatal"
    /\ calls[sink[Len(sink)].id].fn = "LogFatal"
    /\ \E j \in DOMAIN queue : Precedes(sink[Len(sink)].id, queue[j].id)

\* ------------------------------------------------------------------ C32
\* No MarkInitialized call has been made so far.
NeverInitialized == Len(inits) = 0
\* logWrapper calls that have returned.
Ended == {id \in DOMAIN calls : calls[id].outcome # "pending"}
Min(a, b) == IF a <= b THEN a ELSE b

\* C32: as long as MarkInitialized has not been called, Sink is empty and
\* the process runs, whatever the level of the records; every call that
\* ended either enqueued or dropped its record; the channel holds the first
\* QueueCap records and nothing else; it only grows, and a call that finds it
\* holding QueueCap records drops its record.
C32_UninitializedNeverWrites ==
    /\ [](NeverInitialized =>
            /\ sink = <<>>
            /\ proc = "running"
            /\ panics = {}
            /\ ~queueClosed /\ ~chanClosed /\ DOMAIN drainers = {}
            /\ \A id \in Ended : calls[id].outcome \in {"enqueued", "dropped"}
            /\ Len(queue) = Min(QueueCap, Cardinality(Ended))
            /\ {queue[j].id : j \in DOMAIN queue} = {id \in Ended : calls[id].outcome = "enqueued"})
    /\ [][NeverInitialized' => (queue' = queue \/ \E t \in Threads : queue' = Append(queue, op[t]))]_vars
    /\ [][\A t \in Threads :
            (NeverInitialized' /\ pc[t] = "lw_send" /\ pc'[t] # "lw_send") =>
                IF Len(queue) = QueueCap
                THEN queue' = queue /\ calls'[op[t].id].outcome = "dropped"
                ELSE queue' = Append(queue, op[t]) /\ calls'[op[t].id].outcome = "enqueued"]_vars

\* MarkInitialized was never called, the channel is full, it holds a
\* LogFatal record, and a later call has dropped its record.
C32_Witness ==
    /\ NeverInitialized
    /\ Len(queue) = QueueCap
    /\ \E j \in DOMAIN queue : queue[j].level = "fatal"
    /\ \E id \in Ended : calls[id].outcome = "dropped"
    /\ sink = <<>>

\* ------------------------------------------------------- startup of main
\* Variant of line 114 that makes the channel as small as the model's.
ChannelCap_Small == QueueCap

\* Capacity of the channel init() makes (line 114).
ChannelCap == 100

\* Environments main starts in: each variable LoadEnvs and SetupLogger read
\* is unset or set; the gin mode and the level also to a value their
\* consumer rejects.
StartupEnvs ==
    {MakeEnv((EnvBackendProfile :> p) @@ (EnvGinMode :> g) @@ (EnvBackendLogLevel :> l) @@
             (EnvBackendLogFormat :> f) @@ (EnvBackendLogFile :> n) @@ (EnvBackendLogOutput :> o)) :
        p \in {Unset, "test"}, g \in {Unset, "debug", "bogus"}, l \in {Unset, "debug", "verbose"},
        f \in {Unset, "json"}, n \in {Unset, "fit.log"}, o \in {Unset, "file"}}
\* .env files: none, or a .env that sets the log level.
StartupDotenvs == {<<>>, (".env" :> (EnvBackendLogLevel :> "warn"))}

\* Process start: the channel has the capacity init() gives it.
StartupInit ==
    /\ LoggerInitCap(ChannelCap)
    /\ \E env \in StartupEnvs, dotenv \in StartupDotenvs, canOpen \in BOOLEAN :
          ConfInit(env, dotenv, canOpen)
    /\ WebIdle

\* Number of calls of package config main has made and that have returned.
MainStep == Cardinality(TopReturns)

\* main up to the return of SetupLogger (main.go lines 13-15):
\* config.LoadEnvs(); config.SetupLogger().  The drainer runs beside it.
StartupNext ==
    \/ MainStep = 0 /\ LE_Call(MainThread)
    \/ MainStep = 1 /\ SetupCalls = {} /\ SL_Call(MainThread)
    \/ GE_Info(MainThread)
    \/ GE_Defer(MainThread)
    \/ GE_Ret(MainThread)
    \/ GF_Build(MainThread)
    \/ LE_Load(MainThread)
    \/ LE_GinMode(MainThread)
    \/ LE_SetMode(MainThread)
    \/ SL_Lock(MainThread)
    \/ SL_Env(MainThread)
    \/ SL_Got(MainThread)
    \/ SL_Level(MainThread)
    \/ SL_Format(MainThread)
    \/ SL_Output(MainThread)
    \/ SL_Mark(MainThread)
    \/ SL_Done(MainThread)
    \/ LW_Send(MainThread)
    \/ LW_Direct(MainThread)
    \/ MI_Store(MainThread)
    \/ MI_Close(MainThread)
    \/ MI_Go(MainThread)
    \/ MI_Log(MainThread)
    \/ \E d \in 1..MaxInits : DR_Recv(d)
    \/ \E d \in 1..MaxInits : DR_Write(d)

StartupSpec == StartupInit /\ [][StartupNext]_vars

\* ------------------------------------------------------------------ C33
\* Records logged through the facade before MarkInitialized was called.
StartupRecords ==
    IF inits = <<>> THEN DOMAIN calls ELSE {id \in DOMAIN calls : calls[id].pre}
StartupTraces == {id \in StartupRecords : calls[id].fn = "LogTrace"}
StartupInfos == {id \in StartupRecords : calls[id].fn = "LogInfo"}
\* GetEnvOrDefault returns, in order.
GetEnvSeq == SelectSeq(confLog, LAMBDA e : e.fn = "GetEnvOrDefault")
TraceSeq == SelectSeq(calls, LAMBDA c : c.src = "env" /\ c.fn = "LogTrace")

\* C33: in main's startup (LoadEnvs, then SetupLogger) at most 12 records
\* are logged before MarkInitialized: LoadEnvs makes two GetEnvOrDefault calls
\* and SetupLogger four, each logs exactly one Trace record (that of its
\* result) and at most one Info record, the Info right before the Trace; so
\* the channel of capacity 100 never fills and no record is dropped.
C33_StartupFitsBacklog ==
    /\ chanCap = ChannelCap
    /\ Cardinality(StartupRecords) <= 12
    /\ Len(queue) <= 12 /\ Len(queue) < chanCap
    /\ \A id \in DOMAIN calls : calls[id].outcome # "dropped"
    /\ inits = <<>> => \A id \in DOMAIN calls : calls[id].outcome \in {"pending", "enqueued"}
    /\ StartupRecords = StartupTraces \cup StartupInfos
    /\ Cardinality(StartupTraces) <= 6
    /\ Len(GetEnvSeq) <= Len(TraceSeq) /\ Len(TraceSeq) <= Len(GetEnvSeq) + 1
    /\ \A k \in DOMAIN GetEnvSeq :
          TraceSeq[k].message = ResultMsg(GetEnvSeq[k].key, GetEnvSeq[k].res)
    /\ \A id \in StartupInfos :
          /\ calls[id].src = "env"
          /\ id = 1 \/ calls[id - 1].fn = "LogTrace"
          /\ id + 1 \in DOMAIN calls => calls[id + 1].fn = "LogTrace" /\ (id + 1) \in StartupRecords
    /\ inits # <<>> =>
          /\ Cardinality(StartupTraces) = 6
          /\ Len(atClose) <= Cardinality(StartupRecords)
    /\ chanClosed => Len(atClose) = Cardinality(StartupRecords)

\* Every variable was unset: the six GetEnvOrDefault calls logged twelve
\* records, all were in the channel when MarkInitialized closed it, and the
\* drainer has written them all.
C33_Witness ==
    /\ inits # <<>>
    /\ Cardinality(StartupRecords) = 12
    /\ Len(atClose) = 12
    /\ \A id \in StartupRecords : Cardinality(SinkPositions(id)) = 1
    /\ MainStep = 2

\* ============================================================ HTTP handlers
\* State of the logger and of package config.
coreVars == <<queueClosed, chanCap, queue, chanClosed, sink, pc, op, curInit, drainers,
              proc, panics, calls, inits, atClose, appArg, stack, confVars>>

\* ------------------------------------------------------- machine integers
\* Width of Go's int in the model (64 in the build; the arithmetic is the same).
IntBits == 16
MaxInt == 2^(IntBits - 1) - 1
MinInt == -(2^(IntBits - 1))
\* Two's-complement wrap-around of an int result that is not below MinInt.
WrapInt(x) == ((x - MinInt) % 2^IntBits) + MinInt

\* ----------------------------------------------------------- strconv.Atoi
\* Strings are sequences of one-character strings.
DigitChars == <<"0", "1", "2", "3", "4", "5", "6", "7", "8", "9">>
IsDigit(c) == \E d \in DOMAIN DigitChars : DigitChars[d] = c
DigitValue(c) == (CHOOSE d \in DOMAIN DigitChars : DigitChars[d] = c) - 1
RECURSIVE Decimal(_)
Decimal(s) == IF s = <<>> THEN 0 ELSE 10 * Decimal(SubSeq(s, 1, Len(s) - 1)) + DigitValue(s[Len(s)])

\* strconv.Atoi(s): an optional sign and one or more decimal digits; a
\* syntax error yields 0, a value outside int yields the nearest bound and a
\* range error.
Atoi(s) ==
    LET signed == s # <<>> /\ s[1] \in {"+", "-"}
        body == IF signed THEN Tail(s) ELSE s
        neg == signed /\ s[1] = "-"
    IN IF body = <<>> \/ \E i \in DOMAIN body : ~IsDigit(body[i])
       THEN [val |-> 0, err |-> "syntax"]
       ELSE LET v == IF neg THEN -Decimal(body) ELSE Decimal(body) IN
            IF v > MaxInt THEN [val |-> MaxInt, err |-> "range"]
            ELSE IF v < MinInt THEN [val |-> MinInt, err |-> "range"]
            ELSE [val |-> v, err |-> ""]

\* ---------------------------------------------------- getPaginationParams
\* A query parameter: absent from the URL, or present with a value.
Absent == [present |-> FALSE, value |-> <<>>]
Given(s) == [present |-> TRUE, value |-> s]
\* c.DefaultQuery(key, def): the value when the key is in the query, else def.
DefaultQuery(q, def) == IF q.present THEN q.value ELSE def

\* part_000 lines 118-134.
getPaginationParams(pageQ, limitQ) ==
    LET pageStr == DefaultQuery(pageQ, <<"1">>)
        limitStr == DefaultQuery(limitQ, <<"1", "0">>)
        p == Atoi(pageStr)
        page == IF p.err # "" \/ p.val < 1 THEN 1 ELSE p.val
        l == Atoi(limitStr)
        limit == IF l.err # "" \/ l.val < 1 \/ l.val > 100 THEN 10 ELSE l.val
    IN [page |-> page, limit |-> limit, offset |-> WrapInt((page - 1) * limit)]

\* Longest page value of the requests of the model.
MaxQueryLen == 5
QueryChars == {"-", "+", "0", "1", "9", "a"}
Strings(n) == UNION {[1..k -> QueryChars] : k \in 0..n}
PageQueries == {Absent} \cup {Given(s) : s \in Strings(MaxQueryLen)}
LimitQueries ==
    {Absent, Given(<<>>), Given(<<"a">>), Given(<<"0">>), Given(<<"1">>), Given(<<"1", "0">>),
     Given(<<"9", "9">>), Given(<<"1", "0", "0">>), Given(<<"1", "0", "1">>), Given(<<"-", "1">>)}

\* A list request arrives at goroutine MainThread's handler.
PageInit ==
    /\ LoggerInit
    /\ ConfInit(<<>>, <<>>, TRUE)
    /\ db = EmptyDB
    /\ schema = [foreignKeys |-> FALSE, uniqueLink |-> FALSE]
    /\ \E pageQ \in PageQueries, limitQ \in LimitQueries :
          web = [t \in Threads |->
                   IF t = MainThread
                   THEN [handler |-> "getPaginationParams", page |-> pageQ, limit |-> limitQ,
                         returned |-> FALSE]
                   ELSE NoRequest]

\* The handler calls getPaginationParams(c) and has its results.
PG_Call(t) ==
    /\ web[t].handler = "getPaginationParams"
    /\ ~web[t].returned
    /\ web' = [web EXCEPT ![t] =
                 [handler |-> "getPaginationParams", page |-> web[t].page, limit |-> web[t].limit,
                  returned |-> TRUE, res |-> getPaginationParams(web[t].page, web[t].limit)]]
    /\ UNCHANGED <<coreVars, db, schema>>

PageNext == \E t \in Threads : PG_Call(t)

PageSpec == PageInit /\ [][PageNext]_vars

\* ------------------------------------------------------------------ C34
PageReturns == {t \in Threads : web[t].handler = "getPaginationParams" /\ web[t].returned}

\* C34: getPaginationParams returns a limit in 1..100 and an offset that is
\* not negative and equals (page - 1) * limit for the page it settled on,
\* which is at least 1; an absent, non-numeric or < 1 page counts as 1 and an
\* absent, non-numeric, < 1 or > 100 limit as 10.
C34_PaginationInRange ==
    \A t \in PageReturns :
        LET r == web[t].res
            p == Atoi(DefaultQuery(web[t].page, <<"1">>))
            l == Atoi(DefaultQuery(web[t].limit, <<"1", "0">>))
        IN /\ r.limit \in 1..100
           /\ r.page >= 1
           /\ r.offset >= 0
           /\ r.offset = (r.page - 1) * r.limit
           /\ r.page = IF p.err = "" /\ p.val >= 1 THEN p.val ELSE 1
           /\ r.limit = IF l.err = "" /\ l.val >= 1 /\ l.val <= 100 THEN l.val ELSE 10

\* ------------------------------------------------- handlers and database
\* A transaction of db.Begin(): the rows its DELETE statements have removed
\* and that stay locked until it commits or rolls back.
NoTx == [open |-> FALSE, programs |-> {}, routines |-> {}, routine_exercises |-> {}]
\* What a goroutine of the HTTP server holds: the handler it runs and where,
\* the request's parameters, its transaction, the rows of its open query, the
\* id its INSERT returned, the
\* status it answered with (0: none yet); n and note are history (requests
\* served by the goroutine, the statement that failed).
Serving(handler, first, arg, n) ==
    [handler |-> handler, pc |-> first, arg |-> arg, tx |-> NoTx, rows |-> <<>>, id |-> 0,
     resp |-> 0, n |-> n, note |-> ""]
Waiting == Serving("none", "done", <<>>, 0)

RECURSIVE Served(_)
\* Requests the goroutines of S have accepted.
Served(S) == IF S = {} THEN 0 ELSE LET t == CHOOSE x \in S : TRUE IN web[t].n + Served(S \ {t})
\* Number of requests the server receives.
MaxRequests == 3

\* READ COMMITTED: a statement sees the committed rows, less those its own
\* transaction deleted; rows another open transaction deleted are still
\* visible and are locked.
Visible(t, tbl) == db[tbl] \ web[t].tx[tbl]
OthersDeleting(t, tbl) == UNION {web[u].tx[tbl] : u \in Threads \ {t}}
RoutineIds(rs) == {r.id : r \in rs}

\* The logger after main's start-up (SetupLogger has returned, the drainer
\* has finished); of the start-up's records only MarkInitialized's is kept.
LoggerReady ==
    /\ queueClosed = TRUE
    /\ chanCap = QueueCap
    /\ queue = <<>>
    /\ chanClosed = TRUE
    /\ sink = <<[id |-> 1, level |-> "info", message |-> InitMsg, by |-> "direct"]>>
    /\ pc = [t \in Threads |-> "idle"]
    /\ op = [t \in Threads |-> NoOp]
    /\ curInit = [t \in Threads |-> 0]
    /\ drainers = <<[pc |-> "done", op |-> NoOp]>>
    /\ proc = "running"
    /\ panics = {}
    /\ calls = <<[src |-> "mi", fn |-> "LogInfo", message |-> InitMsg, init |-> 1,
                  conc |-> {}, post |-> FALSE, observed |-> TRUE, afterClose |-> TRUE,
                  pre |-> FALSE, outcome |-> "direct"]>>
    /\ inits = <<[res |-> "returned", branch |-> "transition", late |-> FALSE, overlap |-> FALSE]>>
    /\ atClose = <<>>
    /\ appArg = 0
    /\ stack = [t \in Threads |-> <<>>]
\* Package config after SetupLogger with every variable at its default.
ConfReady ==
    /\ environ = <<>>
    /\ fsys = [dotenv |-> <<>>, canOpenLog |-> TRUE]
    /\ once = [done |-> TRUE, mu |-> 0]
    /\ logConf = [level |-> "info", writer |-> "zerolog.ConsoleWriter{Out: os.Stdout}"]
    /\ frame = [t \in Threads |-> NoFrame]
    /\ confLog = <<>>

\* What a handler leaves alone besides the database, its own state and the log.
webFrame == <<queueClosed, chanCap, queue, chanClosed, pc, op, curInit, drainers, proc,
              panics, inits, atClose, appArg, stack, confVars, schema>>

\* logger.LogError(msg) of a handler, in Direct state: logWrapper reads the
\* flag (true) and sublogWrapper writes the record.
HandlerLog(msg) ==
    LET id == Len(calls) + 1 IN
    /\ calls' = Append(calls, [src |-> "app", fn |-> "LogError", message |-> msg, init |-> 0,
                               conc |-> {}, post |-> TRUE, observed |-> TRUE,
                               afterClose |-> TRUE, pre |-> FALSE, outcome |-> "direct"])
    /\ sink' = Append(sink, SinkEvent(LogOperation(id, LevelArg("LogError"), msg), "direct"))
NoHandlerLog == UNCHANGED <<calls, sink>>

\* c.JSON(code, ...); return.  An open transaction that was not committed is
\* rolled back (tx.Rollback(), or the server's abort of a failed commit).
Respond(t, code, note) ==
    web' = [web EXCEPT ![t].pc = "done", ![t].resp = code, ![t].tx = NoTx, ![t].note = note]
Goto(t, l) == web' = [web EXCEPT ![t].pc = l]
\* A statement returned an error: LogError, 500.
Fail500(t, msg, note) ==
    /\ HandlerLog(msg \o ": db error")
    /\ Respond(t, 500, note)
    /\ UNCHANGED db
At(t, handler, l) == proc = "running" /\ web[t].handler = handler /\ web[t].pc = l

\* gin hands a request to a goroutine.
Arrive(t, handler, first, arg) ==
    /\ proc = "running"
    /\ web[t].pc = "done"
    /\ Served(Threads) < MaxRequests
    /\ web' = [web EXCEPT ![t] = Serving(handler, first, arg, web[t].n + 1)]
    /\ NoHandlerLog
    /\ UNCHANGED <<db, webFrame>>

\* ------------------------------------------------- deleteProgram (678-743)
\* Lines 679-692: SELECT EXISTS(SELECT 1 FROM programs WHERE id = $1).
DP_Exists(t) ==
    /\ At(t, "deleteProgram", "dp_exists")
    /\ \/ Fail500(t, "Failed to check if program exists", "exists")
       \/ /\ IF web[t].arg.id \in db.programs THEN Goto(t, "dp_begin") ELSE Respond(t, 404, "")
          /\ NoHandlerLog
          /\ UNCHANGED db
    /\ UNCHANGED webFrame

\* Lines 695-700: tx, err := db.Begin().
DP_Begin(t) ==
    /\ At(t, "deleteProgram", "dp_begin")
    /\ \/ Fail500(t, "Failed to begin transaction", "begin")
       \/ /\ web' = [web EXCEPT ![t].pc = "dp_del_rex", ![t].tx = [NoTx EXCEPT !.open = TRUE]]
          /\ NoHandlerLog
          /\ UNCHANGED db
    /\ UNCHANGED webFrame

\* Lines 703-713: DELETE FROM routine_exercises WHERE routine_id IN
\* (SELECT id FROM routines WHERE program_id = $1).
DP_DelRex(t) ==
    /\ At(t, "deleteProgram", "dp_del_rex")
    /\ LET rids == RoutineIds({r \in Visible(t, "routines") : r.program_id = web[t].arg.id})
           target == {x \in Visible(t, "routine_exercises") : x.routine_id \in rids}
       IN \/ Fail500(t, "Failed to delete routine exercises", "delete routine_exercises")
          \/ /\ target \cap OthersDeleting(t, "routine_exercises") = {}
             /\ web' = [web EXCEPT ![t].pc = "dp_del_routines",
                                   ![t].tx.routine_exercises = @ \cup target]
             /\ NoHandlerLog
             /\ UNCHANGED db
    /\ UNCHANGED webFrame

\* Lines 716-722: DELETE FROM routines WHERE program_id = $1.  With foreign
\* keys the statement fails while a routine_exercises row refers to a target.
DP_DelRoutines(t) ==
    /\ At(t, "deleteProgram", "dp_del_routines")
    /\ LET target == {r \in Visible(t, "routines") : r.program_id = web[t].arg.id}
           refs(rows) == {x \in rows : x.routine_id \in RoutineIds(target)}
       IN \/ Fail500(t, "Failed to delete routines", "delete routines")
          \/ /\ target \cap OthersDeleting(t, "routines") = {}
             /\ schema.foreignKeys =>
                   /\ refs(OthersDeleting(t, "routine_exercises")) = {}
                   /\ refs(Visible(t, "routine_exercises")) = {}
             /\ web' = [web EXCEPT ![t].pc = "dp_del_program", ![t].tx.routines = @ \cup target]
             /\ NoHandlerLog
             /\ UNCHANGED db
    /\ UNCHANGED webFrame

\* Lines 725-731: DELETE FROM programs WHERE id = $1.  With foreign keys the
\* statement fails while a routine refers to the program.
DP_DelProgram(t) ==
    /\ At(t, "deleteProgram", "dp_del_program")
    /\ LET target == {p \in Visible(t, "programs") : p = web[t].arg.id}
           refs(rows) == {r \in rows : r.program_id \in target}
       IN \/ Fail500(t, "Failed to delete program", "delete programs")
          \/ /\ target \cap OthersDeleting(t, "programs") = {}
             /\ schema.foreignKeys =>
                   /\ refs(OthersDeleting(t, "routines")) = {}
                   /\ refs(Visible(t, "routines")) = {}
             /\ web' = [web EXCEPT ![t].pc = "dp_commit", ![t].tx.programs = @ \cup target]
             /\ NoHandlerLog
             /\ UNCHANGED db
    /\ UNCHANGED webFrame

\* Lines 734-742: tx.Commit(), then 200.
DP_Commit(t) ==
    /\ At(t, "deleteProgram", "dp_commit")
    /\ \/ Fail500(t, "Failed to commit transaction", "commit")
       \/ /\ db' = [db EXCEPT !.programs = @ \ web[t].tx.programs,
                              !.routines = @ \ web[t].tx.routines,
                              !.routine_exercises = @ \ web[t].tx.routine_exercises]
          /\ Respond(t, 200, "")
          /\ NoHandlerLog
    /\ UNCHANGED webFrame

\* ------------------------------------------------- createRoutine (747-800)
\* Lines 748-777: the body is bound and validated, then
\* SELECT EXISTS(SELECT 1 FROM programs WHERE id = $1).
CR_Exists(t) ==
    /\ At(t, "createRoutine", "cr_exists")
    /\ IF web[t].arg.program_id <= 0
       THEN Respond(t, 400, "") /\ NoHandlerLog /\ UNCHANGED db
       ELSE \/ Fail500(t, "Failed to check if program exists", "exists")
            \/ /\ IF web[t].arg.program_id \in db.programs
                  THEN Goto(t, "cr_insert") ELSE Respond(t, 400, "")
               /\ NoHandlerLog
               /\ UNCHANGED db
    /\ UNCHANGED webFrame

\* Lines 780-799: INSERT INTO routines ... RETURNING id, outside any
\* transaction.  With foreign keys the statement waits while the program is
\* locked by a transaction and fails when the program is gone.
CR_Insert(t) ==
    /\ At(t, "createRoutine", "cr_insert")
    /\ \/ Fail500(t, "Failed to create routine", "insert routines")
       \/ /\ schema.foreignKeys =>
                /\ web[t].arg.program_id \notin OthersDeleting(t, "programs")
                /\ web[t].arg.program_id \in db.programs
          /\ db' = [db EXCEPT !.routines = @ \cup {[id |-> db.serial + 1,
                                                     program_id |-> web[t].arg.program_id]},
                              !.serial = @ + 1]
          /\ Respond(t, 201, "")
          /\ NoHandlerLog
    /\ UNCHANGED webFrame

\* ----------------------------------------- addExerciseToRoutine (1024-1116)
\* Lines 1025-1039: SELECT EXISTS(SELECT 1 FROM routines WHERE id = $1).
AE_Routine(t) ==
    /\ At(t, "addExerciseToRoutine", "ae_routine")
    /\ \/ Fail500(t, "Failed to check if routine exists", "exists")
       \/ /\ IF web[t].arg.routine_id \in RoutineIds(db.routines)
             THEN Goto(t, "ae_exercise") ELSE Respond(t, 404, "")
          /\ NoHandlerLog
          /\ UNCHANGED db
    /\ UNCHANGED webFrame

\* Lines 1041-1067: the body is bound and validated, then
\* SELECT EXISTS(SELECT 1 FROM exercises WHERE id = $1).
AE_Exercise(t) ==
    /\ At(t, "addExerciseToRoutine", "ae_exercise")
    /\ IF web[t].arg.exercise_id <= 0
       THEN Respond(t, 400, "") /\ NoHandlerLog /\ UNCHANGED db
       ELSE \/ Fail500(t, "Failed to check if exercise exists", "exists")
            \/ /\ IF \E e \in db.exercises : e.id = web[t].arg.exercise_id
                  THEN Goto(t, "ae_linked") ELSE Respond(t, 400, "")
               /\ NoHandlerLog
               /\ UNCHANGED db
    /\ UNCHANGED webFrame

\* routine_exercises rows that link the routine and the exercise of t's request.
Links(t, rows) ==
    {x \in rows : x.routine_id = web[t].arg.routine_id /\ x.exercise_id = web[t].arg.exercise_id}

\* Lines 1070-1085: SELECT EXISTS(SELECT 1 FROM routine_exercises WHERE
\* routine_id = $1 AND exercise_id = $2); 400 when the pair is linked.
AE_Linked(t) ==
    /\ At(t, "addExerciseToRoutine", "ae_linked")
    /\ \/ Fail500(t, "Failed to check if exercise is already in routine", "exists")
       \/ /\ IF Links(t, db.routine_exercises) # {}
             THEN Respond(t, 400, "already") ELSE Goto(t, "ae_insert")
          /\ NoHandlerLog
          /\ UNCHANGED db
    /\ UNCHANGED webFrame

\* Lines 1088-1115: INSERT INTO routine_exercises ... RETURNING id, outside
\* any transaction.  A unique constraint on the pair makes the statement
\* fail when the pair is linked; foreign keys make it wait while the routine is
\* locked and fail when the routine is gone.
AE_Insert(t) ==
    /\ At(t, "addExerciseToRoutine", "ae_insert")
    /\ \/ Fail500(t, "Failed to add exercise to routine", "insert routine_exercises")
       \/ /\ schema.uniqueLink
          /\ Links(t, db.routine_exercises) # {}
          /\ Fail500(t, "Failed to add exercise to routine", "duplicate key")
       \/ /\ schema.uniqueLink => Links(t, db.routine_exercises) = {}
          /\ schema.foreignKeys =>
                /\ web[t].arg.routine_id \notin RoutineIds(OthersDeleting(t, "routines"))
                /\ web[t].arg.routine_id \in RoutineIds(db.routines)
          /\ db' = [db EXCEPT
                      !.routine_exercises = @ \cup
                          {[id |-> db.serial + 1, routine_id |-> web[t].arg.routine_id,
                            exercise_id |-> web[t].arg.exercise_id, sets |-> web[t].arg.sets,
                            reps |-> web[t].arg.reps, duration |-> web[t].arg.duration,
                            distance |-> web[t].arg.distance]},
                      !.serial = @ + 1]
          /\ Respond(t, 201, "")
          /\ NoHandlerLog
    /\ UNCHANGED webFrame

\* ------------------------------------------- programs under concurrency
\* The rows of a routine_exercises request or row.
RexValues(s, r, d, m) == [sets |-> s, reps |-> r, duration |-> d, distance |-> m]
LinkArg(routine, exercise, v) ==
    [routine_id |-> routine, exercise_id |-> exercise, sets |-> v.sets, reps |-> v.reps,
     duration |-> v.duration, distance |-> v.distance]
\* Exercise 1 is weight_reps, 2 duration_only, 3 distance_time.
ExerciseRows == {[id |-> 1, exercise_type |-> "weight_reps"],
                 [id |-> 2, exercise_type |-> "duration_only"],
                 [id |-> 3, exercise_type |-> "distance_time"]}
\* One program with one routine, to which exercise 1 is linked.
ProgramDB ==
    [EmptyDB EXCEPT !.programs = {1},
                    !.routines = {[id |-> 1, program_id |-> 1]},
                    !.routine_exercises = {[id |-> 1] @@ LinkArg(1, 1, RexValues(1, 1, 0, 0))},
                    !.exercises = ExerciseRows,
                    !.serial = 1]

\* The server is up; the tables were created with or without foreign keys
\* and the unique constraint.
DeleteInit ==
    /\ LoggerReady
    /\ ConfReady
    /\ db = ProgramDB
    /\ schema \in [foreignKeys : BOOLEAN, uniqueLink : BOOLEAN]
    /\ web = [t \in Threads |-> Waiting]

\* DELETE /programs/1, POST /routines and POST /routines/1/exercises arrive
\* in any order and are served concurrently.
DeleteNext ==
    \/ \E t \in Threads : Arrive(t, "deleteProgram", "dp_exists", [id |-> 1])
    \/ \E t \in Threads : Arrive(t, "createRoutine", "cr_exists", [program_id |-> 1])
    \/ \E t \in Threads :
          Arrive(t, "addExerciseToRoutine", "ae_routine", LinkArg(1, 2, RexValues(0, 0, 1, 0)))
    \/ \E t \in Threads : DP_Exists(t)
    \/ \E t \in Threads : DP_Begin(t)
    \/ \E t \in Threads : DP_DelRex(t)
    \/ \E t \in Threads : DP_DelRoutines(t)
    \/ \E t \in Threads : DP_DelProgram(t)
    \/ \E t \in Threads : DP_Commit(t)
    \/ \E t \in Threads : CR_Exists(t)
    \/ \E t \in Threads : CR_Insert(t)
    \/ \E t \in Threads : AE_Routine(t)
    \/ \E t \in Threads : AE_Exercise(t)
    \/ \E t \in Threads : AE_Linked(t)
    \/ \E t \in Threads : AE_Insert(t)

DeleteSpec == DeleteInit /\ [][DeleteNext]_vars


\* ---------------------------------------------------------------- C35
\* Thread t's deleteProgram request is answered in this step.
DeleteProgramAnswered(t) ==
    /\ web[t].handler = "deleteProgram"
    /\ web[t].pc # "done"
    /\ web'[t].pc = "done"

\* The rows of db that are gone from db'.
Removed(tbl) == db[tbl] \ db'[tbl]

\* deleteProgram commits the three deletes in one step or removes nothing:
\* a request answered 200 leaves the program gone and removed, in the step
\* that answers it, nothing but the program, routines of that program and
\* routine_exercises of those routines; a request answered otherwise removed no row; and no other
\* step removes a row.
DeleteProgramAtomic ==
    \A t \in Threads :
       IF DeleteProgramAnswered(t) /\ web'[t].resp = 200
       THEN /\ Removed("programs") \subseteq {web[t].arg.id}
            /\ web[t].arg.id \notin db'.programs
            /\ \A r \in Removed("routines") : r.program_id = web[t].arg.id
            /\ \A x \in Removed("routine_exercises") :
                  \E r \in Removed("routines") : r.id = x.routine_id
       ELSE (\A u \in Threads : ~(DeleteProgramAnswered(u) /\ web'[u].resp = 200))
               => /\ Removed("programs") = {}
                  /\ Removed("routines") = {}
                  /\ Removed("routine_exercises") = {}

\* A deleteProgram request that met a failing statement or commit is answered
\* 500 and has no effect.
DeleteProgramFailure ==
    \A t \in Threads :
       (DeleteProgramAnswered(t) /\ web'[t].note # "") => web'[t].resp = 500 /\ db' = db

\* No routine is left without its program and no routine_exercises row
\* without its routine.
NoOrphanRows ==
    /\ \A r \in db.routines : r.program_id \in db.programs
    /\ \A x \in db.routine_exercises : x.routine_id \in RoutineIds(db.routines)

\* C35: deleteProgram is all-or-nothing: the program, its routines and their
\* routine_exercises are deleted together at commit, or, when a delete or
\* the commit fails, nothing is deleted and the response is an error; and a
\* program is never removed while one of its routines or their
\* routine_exercises remains.
C35_DeleteProgramAllOrNothing ==
    /\ [][DeleteProgramAtomic /\ DeleteProgramFailure]_vars
    /\ []NoOrphanRows

\* The all-or-nothing half of C35 alone.
C35_AtomicHalf == [][DeleteProgramAtomic /\ DeleteProgramFailure]_vars

\* The half of C35 that follows from the database and not from the handler:
\* with foreign keys no orphan row is ever left.
C35_ForeignKeysHalf == [](schema.foreignKeys => NoOrphanRows)

\* --------------------------------------------- links under concurrency
\* The bodies of the POST /routines/:id/exercises requests: the linked pair,
\* a new pair, an unknown routine, a missing and an unknown exercise.
LinkRequests ==
    {LinkArg(1, 1, RexValues(1, 1, 0, 0)), LinkArg(1, 2, RexValues(0, 0, 1, 0)),
     LinkArg(2, 1, RexValues(1, 1, 0, 0)), LinkArg(1, 0, RexValues(1, 1, 0, 0)),
     LinkArg(1, 9, RexValues(1, 1, 0, 0))}

LinkInit ==
    /\ LoggerReady
    /\ ConfReady
    /\ db = ProgramDB
    /\ schema \in [foreignKeys : {FALSE}, uniqueLink : BOOLEAN]
    /\ web = [t \in Threads |-> Waiting]

LinkNext ==
    \/ \E t \in Threads, a \in LinkRequests : Arrive(t, "addExerciseToRoutine", "ae_routine", a)
    \/ \E t \in Threads : AE_Routine(t)
    \/ \E t \in Threads : AE_Exercise(t)
    \/ \E t \in Threads : AE_Linked(t)
    \/ \E t \in Threads : AE_Insert(t)

LinkSpec == LinkInit /\ [][LinkNext]_vars

\* ---------------------------------------------------------------- C36
\* Thread t's addExerciseToRoutine request is answered in this step.
LinkAnswered(t) ==
    /\ web[t].handler = "addExerciseToRoutine"
    /\ web[t].pc # "done"
    /\ web'[t].pc = "done"

\* The notes of the answers to a statement that failed for a reason of the
\* connection or the server, not of the data.
Outages == {"exists", "insert routine_exercises"}

OneRowPerPair ==
    \A x, y \in db.routine_exercises :
       (x.routine_id = y.routine_id /\ x.exercise_id = y.exercise_id) => x = y

\* A request answered while its pair is linked is answered 400, unless the
\* database was out of reach.
LinkedRejected ==
    \A t \in Threads :
       (LinkAnswered(t) /\ Links(t, db.routine_exercises) # {} /\ web'[t].note \notin Outages)
          => web'[t].resp = 400

\* C36: an exercise is never linked to the same routine twice: under every
\* interleaving of addExerciseToRoutine requests routine_exercises holds at
\* most one row per (routine_id, exercise_id), and a request for a pair that
\* is already linked is answered 400.
C36_LinkedOnce == []OneRowPerPair /\ [][LinkedRejected]_vars

\* C36 on tables with the unique constraint.
C36_WithConstraint == [][schema.uniqueLink => LinkedRejected]_vars
\* The rows with the unique constraint.
C36_ConstraintRows == [](schema.uniqueLink => OneRowPerPair)


\* ------------------------------------------------ createWorkout (1311-1421)
\* Lines 1312-1338: the body is bound and validated; for a workout based on a
\* routine, SELECT EXISTS(SELECT 1 FROM routines WHERE id = $1).
CW_Routine(t) ==
    /\ At(t, "createWorkout", "cw_routine")
    /\ IF web[t].arg.user_id <= 0
       THEN Respond(t, 400, "") /\ NoHandlerLog /\ UNCHANGED db
       ELSE IF web[t].arg.routine_id > 0
       THEN \/ Fail500(t, "Failed to check if routine exists", "exists")
            \/ /\ IF web[t].arg.routine_id \in RoutineIds(db.routines)
                  THEN Goto(t, "cw_insert") ELSE Respond(t, 400, "")
               /\ NoHandlerLog
               /\ UNCHANGED db
       ELSE Goto(t, "cw_insert") /\ NoHandlerLog /\ UNCHANGED db
    /\ UNCHANGED webFrame

\* Lines 1346-1363: INSERT INTO workouts ... RETURNING id.
CW_Insert(t) ==
    /\ At(t, "createWorkout", "cw_insert")
    /\ \/ Fail500(t, "Failed to create workout", "insert workouts")
       \/ /\ schema.foreignKeys => web[t].arg.routine_id \in RoutineIds(db.routines)
          /\ db' = [db EXCEPT !.workouts = @ \cup {[id |-> db.serial + 1,
                                                     routine_id |-> web[t].arg.routine_id]},
                              !.serial = @ + 1]
          /\ web' = [web EXCEPT ![t].pc = "cw_query", ![t].id = db.serial + 1]
          /\ NoHandlerLog
    /\ UNCHANGED webFrame

RECURSIVE SeqOf(_)
\* The rows of a result set in the order the server returns them.
SeqOf(S) == IF S = {} THEN <<>>
            ELSE LET x == CHOOSE y \in S : \A z \in S : y.id <= z.id IN <<x>> \o SeqOf(S \ {x})

\* Lines 1365-1378: without routine the handler answers 201; with one it
\* runs SELECT exercise_id, recommended_* FROM routine_exercises WHERE
\* routine_id = $1, whose failure is logged and ends the pre-fill.
CW_Query(t) ==
    /\ At(t, "createWorkout", "cw_query")
    /\ IF web[t].arg.routine_id > 0
       THEN \/ /\ HandlerLog("Failed to get routine exercises: db error")
               /\ Respond(t, 201, "query")
            \/ /\ web' = [web EXCEPT ![t].pc = "cw_copy",
                            ![t].rows = SeqOf({x \in db.routine_exercises :
                                                  x.routine_id = web[t].arg.routine_id})]
               /\ NoHandlerLog
       ELSE Respond(t, 201, "") /\ NoHandlerLog
    /\ UNCHANGED <<db, webFrame>>

\* Lines 1380-1420: one turn of the loop over the rows: INSERT INTO
\* workout_sets (workout_id, exercise_id, sets, reps, rpe, duration,
\* distance) with the recommended values as they are; a failed scan or
\* insert is logged and the loop goes on; after the last row, 201.
CW_Copy(t) ==
    /\ At(t, "createWorkout", "cw_copy")
    /\ IF web[t].rows = <<>>
       THEN Respond(t, 201, "") /\ NoHandlerLog /\ UNCHANGED db
       ELSE LET x == Head(web[t].rows) IN
            /\ web' = [web EXCEPT ![t].rows = Tail(@)]
            /\ \/ HandlerLog("Failed to scan routine exercise row: db error") /\ UNCHANGED db
               \/ HandlerLog("Failed to create workout set from routine: db error") /\ UNCHANGED db
               \/ /\ db' = [db EXCEPT
                              !.workout_sets = @ \cup
                                  {[id |-> db.serial + 1, workout_id |-> web[t].id,
                                    exercise_id |-> x.exercise_id, sets |-> x.sets,
                                    reps |-> x.reps, duration |-> x.duration,
                                    distance |-> x.distance]},
                              !.serial = @ + 1]
                  /\ NoHandlerLog
    /\ UNCHANGED webFrame

\* ------------------------------------------------ addWorkoutSet (1549-1656)
\* Lines 1550-1564: SELECT EXISTS(SELECT 1 FROM workouts WHERE id = $1).
AW_Workout(t) ==
    /\ At(t, "addWorkoutSet", "aw_workout")
    /\ \/ Fail500(t, "Failed to check if workout exists", "exists")
       \/ /\ IF \E w \in db.workouts : w.id = web[t].arg.workout_id
             THEN Goto(t, "aw_exercise") ELSE Respond(t, 404, "")
          /\ NoHandlerLog
          /\ UNCHANGED db
    /\ UNCHANGED webFrame

\* Lines 1566-1592: the body is bound and validated, then
\* SELECT EXISTS(SELECT 1 FROM exercises WHERE id = $1).
AW_Exercise(t) ==
    /\ At(t, "addWorkoutSet", "aw_exercise")
    /\ IF web[t].arg.exercise_id <= 0
       THEN Respond(t, 400, "") /\ NoHandlerLog /\ UNCHANGED db
       ELSE \/ Fail500(t, "Failed to check if exercise exists", "exists")
            \/ /\ IF \E e \in db.exercises : e.id = web[t].arg.exercise_id
                  THEN Goto(t, "aw_type") ELSE Respond(t, 400, "")
               /\ NoHandlerLog
               /\ UNCHANGED db
    /\ UNCHANGED webFrame

\* Lines 1604-1628: the validation by exercise type; a type other than the
\* three is not validated.
Validate(exerciseType, v) ==
    IF exerciseType = "weight_reps" THEN v.sets > 0 /\ v.reps > 0
    ELSE IF exerciseType = "duration_only" THEN v.duration > 0
    ELSE IF exerciseType = "distance_time" THEN v.distance > 0 /\ v.duration > 0
    ELSE TRUE

\* Lines 1594-1628: SELECT exercise_type FROM exercises WHERE id = $1 and the
\* validation; 400 when it fails.
AW_Type(t) ==
    /\ At(t, "addWorkoutSet", "aw_type")
    /\ \/ Fail500(t, "Failed to get exercise type", "type")
       \/ \E e \in db.exercises :
             /\ e.id = web[t].arg.exercise_id
             /\ IF Validate(e.exercise_type, web[t].arg)
                THEN Goto(t, "aw_insert") ELSE Respond(t, 400, "invalid")
             /\ NoHandlerLog
             /\ UNCHANGED db
    /\ UNCHANGED webFrame

\* Lines 1630-1655: INSERT INTO workout_sets ... RETURNING id; 201.
AW_Insert(t) ==
    /\ At(t, "addWorkoutSet", "aw_insert")
    /\ \/ Fail500(t, "Failed to add workout set", "insert workout_sets")
       \/ /\ db' = [db EXCEPT
                      !.workout_sets = @ \cup
                          {[id |-> db.serial + 1, workout_id |-> web[t].arg.workout_id,
                            exercise_id |-> web[t].arg.exercise_id, sets |-> web[t].arg.sets,
                            reps |-> web[t].arg.reps, duration |-> web[t].arg.duration,
                            distance |-> web[t].arg.distance]},
                      !.serial = @ + 1]
          /\ Respond(t, 201, "")
          /\ NoHandlerLog
    /\ UNCHANGED webFrame

\* ------------------------------------------------------ workouts
\* The values of a request body: nothing given (every number 0) or every
\* number given.
SetValues == {RexValues(0, 0, 0, 0), RexValues(1, 1, 1, 1)}
SetBody(workout, exercise, v) ==
    [workout_id |-> workout, exercise_id |-> exercise, sets |-> v.sets, reps |-> v.reps,
     duration |-> v.duration, distance |-> v.distance]
\* One program with one routine that has no exercise yet.
RoutineDB == [ProgramDB EXCEPT !.routine_exercises = {}, !.serial = 0]

WorkoutInit ==
    /\ LoggerReady
    /\ ConfReady
    /\ db = RoutineDB
    /\ schema = [foreignKeys |-> FALSE, uniqueLink |-> FALSE]
    /\ web = [t \in Threads |-> Waiting]

\* POST /routines/1/exercises, POST /workouts and POST /workouts/:id/sets.
WorkoutNext ==
    \/ \E t \in Threads, e \in {1, 2, 3}, v \in SetValues :
          Arrive(t, "addExerciseToRoutine", "ae_routine", LinkArg(1, e, v))
    \/ \E t \in Threads, u \in {0, 1}, r \in {0, 1, 2} :
          Arrive(t, "createWorkout", "cw_routine", [user_id |-> u, routine_id |-> r])
    \/ \E t \in Threads, w \in {1}, e \in {0, 1, 2, 3, 9}, v \in SetValues :
          Arrive(t, "addWorkoutSet", "aw_workout", SetBody(w, e, v))
    \/ \E t \in Threads : AE_Routine(t)
    \/ \E t \in Threads : AE_Exercise(t)
    \/ \E t \in Threads : AE_Linked(t)
    \/ \E t \in Threads : AE_Insert(t)
    \/ \E t \in Threads : CW_Routine(t)
    \/ \E t \in Threads : CW_Insert(t)
    \/ \E t \in Threads : CW_Query(t)
    \/ \E t \in Threads : CW_Copy(t)
    \/ \E t \in Threads : AW_Workout(t)
    \/ \E t \in Threads : AW_Exercise(t)
    \/ \E t \in Threads : AW_Type(t)
    \/ \E t \in Threads : AW_Insert(t)

WorkoutSpec == WorkoutInit /\ [][WorkoutNext]_vars

\* ---------------------------------------------------------------- C37
\* The row passes the check addWorkoutSet makes for the type of its exercise.
MeetsValidation(x) ==
    \A e \in db.exercises :
       e.id = x.exercise_id =>
          /\ e.exercise_type = "weight_reps" => (x.sets > 0 /\ x.reps > 0)
          /\ e.exercise_type = "duration_only" => x.duration > 0
          /\ e.exercise_type = "distance_time" => (x.distance > 0 /\ x.duration > 0)

\* C37: every workout_sets row satisfies the validation addWorkoutSet makes
\* for the type of its exercise, whichever operation created it, the rows
\* createWorkout copies from a routine's routine_exercises included.
C37_SetsValidated == \A x \in db.workout_sets : MeetsValidation(x)

\* The rows of the workouts that are not based on a routine are valid: they
\* come from addWorkoutSet alone.
C37_AddedSetsValidated ==
    \A x \in db.workout_sets :
       (\E w \in db.workouts : w.id = x.workout_id /\ w.routine_id = 0) => MeetsValidation(x)

====
